---- MODULE Spec2Model ----
(***************************************************************************)
(* Deployment orchestration of bdevz/resumex: DeploymentOrchestrator        *)
(* (orchestration/deployment-orchestrator.ts) driving one CloudFormation   *)
(* stack through probe, submit, poll, code sync and output extraction.     *)
(* A run is one call of deploy(); the CloudFormation control plane is the  *)
(* environment.                                                            *)
(***************************************************************************)
EXTENDS Integers, Sequences, FiniteSets, TLC

VARIABLES
    config,         \* run -> the DeploymentConfig passed to deploy()
    pc,             \* run -> the await the run is suspended at
    promise,        \* run -> the promise deploy() returned
    existingStack,  \* run -> deployStack's existingStack
    polled,         \* run -> waitForStackOperation's stack (last probe)
    stackResult,    \* run -> deploy's stackResult
    elapsed,        \* run -> Date.now() - startTime of waitForStackOperation, ms
    awsCalls,       \* run -> the AWS APIs the run has called
    submissions,    \* run -> the CreateStack/UpdateStack calls, with outcome
    syncCalls,      \* run -> the resource-manager calls, with arguments
    phases,         \* run -> the phases of deploy() entered, in order
    template,       \* run -> deploy's template
    stack,          \* the CloudFormation stack of that name (control plane)
    now,            \* Date.now(), as its base-36 digits
    request,        \* the config and environment a caller of the naming service holds
    namings,        \* the generateResourceNames calls made, with their results
    conflictArgs,   \* the names and existing names a caller of checkNamingConflicts holds
    conflictCalls,  \* the checkNamingConflicts calls made, with their results
    baseConfig,     \* the base config object a caller of resolveEnvironmentConfig holds
    resolutions,    \* the resolveEnvironmentConfig calls made, with their results
    candidate,      \* the config object a caller of the validator holds
    verdicts        \* the validator calls made, with their results

vars == <<config, pc, promise, existingStack, polled, stackResult, elapsed,
          awsCalls, submissions, syncCalls, phases, template, stack,
          now, request, namings, conflictArgs, conflictCalls,
          baseConfig, resolutions, candidate, verdicts>>

namingVars == <<now, request, namings>>

conflictVars == <<conflictArgs, conflictCalls>>

resolveVars == <<baseConfig, resolutions>>

validatorVars == <<candidate, verdicts>>

serviceVars == <<conflictVars, resolveVars, validatorVars>>

(***************************************************************************)
(* String methods of the source, over TLA+ strings.                        *)
(***************************************************************************)
endsWith(s, suffix) ==
    /\ Len(s) >= Len(suffix)
    /\ SubSeq(s, Len(s) - Len(suffix) + 1, Len(s)) = suffix

includes(s, sub) ==
    \E i \in 1..(Len(s) - Len(sub) + 1) : SubSeq(s, i, i + Len(sub) - 1) = sub

UpperChars == "ABCDEFGHIJKLMNOPQRSTUVWXYZ"
LowerChars == "abcdefghijklmnopqrstuvwxyz"

CharsOf(s) == {SubSeq(s, i, i) : i \in 1..Len(s)}

UpperSet == CharsOf(UpperChars)

lowerChar(c) ==
    IF c \in UpperSet
    THEN LET i == CHOOSE j \in 1..Len(UpperChars) : SubSeq(UpperChars, j, j) = c
         IN  SubSeq(LowerChars, i, i)
    ELSE c

\* The two halves of a string of two or more characters.
Left(s) == SubSeq(s, 1, Len(s) \div 2)
Right(s) == SubSeq(s, Len(s) \div 2 + 1, Len(s))

RECURSIVE toLowerCase(_)
toLowerCase(s) ==
    IF \A i \in 1..Len(s) : SubSeq(s, i, i) \notin UpperSet THEN s
    ELSE IF Len(s) = 1 THEN lowerChar(s)
    ELSE toLowerCase(Left(s)) \o toLowerCase(Right(s))

(***************************************************************************)
(* Values.                                                                 *)
(***************************************************************************)
\* null / undefined for an object-valued expression (falsy).
Null == [exists |-> FALSE]

Truthy(v) == v.exists

Err(name, message) == [name |-> name, message |-> message]

\* waitForStackOperation's default maxWaitTime and the sleep between probes, ms.
MaxWaitTime == 1800000
PollInterval == 10000

\* How long one DescribeStacks round trip of the polling loop may take, ms.
ProbeLatencies == {0, PollInterval}

AppTypes == {"frontend", "backend", "fullstack"}

\* A section of the config file: absent, or present with its source_dir.
Section(dir) == [exists |-> TRUE, source_dir |-> dir]

\* The deployment section of a config file that sets none of its keys.
DeploymentSettings == [stack_name |-> "", tags |-> <<>>]

\* The configs deploy() is called with: name empty or not, a known or an
\* unknown type, each section present or absent.  The command line hands
\* deploy() the parsed file as it is, so a file without a deployment section
\* (the validator's schema makes the section optional) arrives without one.
Configs ==
    { [application |-> [name |-> n, type |-> t],
       aws         |-> [region |-> ""],
       frontend    |-> f,
       backend     |-> b,
       deployment  |-> d] :
         n \in {"", "my-app"},
         t \in AppTypes \cup {"worker"},
         f \in {Null, Section("./dist")},
         b \in {Null, Section("./src")},
         d \in {Null, DeploymentSettings} }

\* The StackStatus values the control plane reports for a stack described by name.
StackStatuses ==
    { "CREATE_IN_PROGRESS", "CREATE_FAILED", "CREATE_COMPLETE",
      "ROLLBACK_IN_PROGRESS", "ROLLBACK_FAILED", "ROLLBACK_COMPLETE",
      "DELETE_IN_PROGRESS", "DELETE_FAILED",
      "UPDATE_IN_PROGRESS", "UPDATE_COMPLETE_CLEANUP_IN_PROGRESS",
      "UPDATE_COMPLETE", "UPDATE_FAILED",
      "UPDATE_ROLLBACK_IN_PROGRESS", "UPDATE_ROLLBACK_FAILED",
      "UPDATE_ROLLBACK_COMPLETE" }

Runs == DOMAIN pc

Set(f, r, v) == [f EXCEPT ![r] = v]

(***************************************************************************)
(* deploy(): stack name, validation, template, result assembly.            *)
(***************************************************************************)
\* config.deployment.stack_name || `${config.application.name}-stack`
stackNameOf(cfg) ==
    IF cfg.deployment.stack_name # "" THEN cfg.deployment.stack_name
    ELSE cfg.application.name \o "-stack"

\* config.aws.region || 'us-east-1'
regionOf(cfg) == IF cfg.aws.region # "" THEN cfg.aws.region ELSE "us-east-1"

Ok == [threw |-> FALSE]
Throw(error) == [threw |-> TRUE, error |-> error]
Return(value) == [threw |-> FALSE, value |-> value]

TypeErrorOnUndefined(prop) ==
    Err("TypeError",
        "Cannot read properties of undefined (reading '" \o prop \o "')")

\* Lines 32-41, before the try: the stack name is read off the deployment
\* section, which throws when the section is absent.
stackName(cfg) ==
    IF cfg.deployment = Null THEN Throw(TypeErrorOnUndefined("stack_name"))
    ELSE Return(stackNameOf(cfg))

\* Mutant: the backend section is not checked.
validateDeployment_skipsBackendCheck(cfg) ==
    IF cfg.application.name = ""
    THEN Throw(Err("Error", "Application name is required"))
    ELSE IF cfg.application.type \notin {"frontend", "backend", "fullstack"}
    THEN Throw(Err("Error",
           "Invalid application type. Must be frontend, backend, or fullstack"))
    ELSE IF cfg.application.type \in {"frontend", "fullstack"} /\ ~Truthy(cfg.frontend)
    THEN Throw(Err("Error",
           "Frontend configuration is required for frontend/fullstack applications"))
    ELSE Ok

\* Mutant: the type is not checked against the known set.
validateDeployment_skipsTypeCheck(cfg) ==
    IF cfg.application.name = ""
    THEN Throw(Err("Error", "Application name is required"))
    ELSE IF cfg.application.type \in {"frontend", "fullstack"} /\ ~Truthy(cfg.frontend)
    THEN Throw(Err("Error",
           "Frontend configuration is required for frontend/fullstack applications"))
    ELSE IF cfg.application.type \in {"backend", "fullstack"} /\ ~Truthy(cfg.backend)
    THEN Throw(Err("Error",
           "Backend configuration is required for backend/fullstack applications"))
    ELSE Ok

validateDeployment(cfg) ==
    IF cfg.application.name = ""
    THEN Throw(Err("Error", "Application name is required"))
    ELSE IF cfg.application.type \notin {"frontend", "backend", "fullstack"}
    THEN Throw(Err("Error",
           "Invalid application type. Must be frontend, backend, or fullstack"))
    ELSE IF cfg.application.type \in {"frontend", "fullstack"} /\ ~Truthy(cfg.frontend)
    THEN Throw(Err("Error",
           "Frontend configuration is required for frontend/fullstack applications"))
    ELSE IF cfg.application.type \in {"backend", "fullstack"} /\ ~Truthy(cfg.backend)
    THEN Throw(Err("Error",
           "Backend configuration is required for backend/fullstack applications"))
    ELSE Ok

\* Mutant: a backend template declares no output.
templateOutputs_frontendOnly(type) ==
    IF type \in {"frontend", "fullstack"}
    THEN <<[OutputKey |-> "WebsiteURL", OutputValue |-> "http://website"]>>
    ELSE <<>>

\* The Outputs the generated template declares, in the order they are added.
templateOutputs(type) ==
    (IF type \in {"frontend", "fullstack"}
     THEN <<[OutputKey |-> "WebsiteURL", OutputValue |-> "http://website"]>>
     ELSE <<>>)
    \o
    (IF type \in {"backend", "fullstack"}
     THEN <<[OutputKey |-> "FunctionURL", OutputValue |-> "https://function"]>>
     ELSE <<>>)

\* A resource of the template: its type and the property that names it, an
\* Fn::Sub string ('' when the resource has no name of its own).
Resource(type, property, sub) ==
    [Type |-> type, Properties |-> IF property = "" THEN [p \in {} |-> ""]
                                   ELSE property :> sub]

NoResources == [id \in {} |-> Resource("", "", "")]

\* Lines 46-94: the bucket and its policy, keyed by logical ID.
addFrontendResources(cfg) ==
    LET bucketName == cfg.application.name \o "-frontend-bucket"
    IN  (bucketName :> Resource("AWS::S3::Bucket", "BucketName",
                                "${ApplicationName}-frontend-${AWS::AccountId}"))
        @@ ((bucketName \o "Policy") :> Resource("AWS::S3::BucketPolicy", "", ""))

\* Lines 96-174: the role, the function, its URL and the URL's permission.
addBackendResources(cfg) ==
    LET functionName == cfg.application.name \o "-function"
        roleName == cfg.application.name \o "-execution-role"
    IN  (roleName :> Resource("AWS::IAM::Role", "RoleName",
                              "${ApplicationName}-execution-role"))
        @@ (functionName :> Resource("AWS::Lambda::Function", "FunctionName",
                                     "${ApplicationName}-function"))
        @@ ((functionName \o "Url") :> Resource("AWS::Lambda::Url", "", ""))
        @@ ((functionName \o "UrlPermission")
               :> Resource("AWS::Lambda::Permission", "", ""))

\* CloudFormationGenerator.generate: the base template of lines 25-44 with
\* the resources and outputs the switch on the type adds.
generate(cfg) ==
    LET type == cfg.application.type
    IN  [AWSTemplateFormatVersion |-> "2010-09-09",
         Description |-> "AWS Deployment Template for " \o cfg.application.name,
         Parameters  |->
            [ApplicationName |-> [Type |-> "String",
                                  Default |-> cfg.application.name,
                                  Description |-> "Name of the application"],
             Environment     |-> [Type |-> "String",
                                  Default |-> "production",
                                  Description |-> "Deployment environment"]],
         Resources   |->
            (IF type \in {"frontend", "fullstack"}
             THEN addFrontendResources(cfg) ELSE NoResources)
            @@ (IF type \in {"backend", "fullstack"}
                THEN addBackendResources(cfg) ELSE NoResources),
         Outputs     |-> templateOutputs(type)]

\* TemplateEngine.generateTemplate with the default options
\* ({format: 'cloudformation'}): the registered generator's document.
generateTemplate(cfg) == Return(generate(cfg))

metadataOf(cfg, duration) ==
    [region |-> regionOf(cfg), stackName |-> stackNameOf(cfg), duration |-> duration]

\* Mutant: the error's own name is reported as the code.
failureResult_codeFromError(cfg, error, duration) ==
    [success   |-> FALSE,
     resources |-> <<>>,
     endpoints |-> <<>>,
     errors    |-> <<[code |-> error.name,
                      message |-> error.message,
                      remediation |->
                        "Check AWS CloudFormation console for detailed error information"]>>,
     metadata  |-> metadataOf(cfg, duration)]

\* The result deploy()'s catch block assembles.
failureResult(cfg, error, duration) ==
    [success   |-> FALSE,
     resources |-> <<>>,
     endpoints |-> <<>>,
     errors    |-> <<[code |-> "DEPLOYMENT_FAILED",
                      message |-> error.message,
                      remediation |->
                        "Check AWS CloudFormation console for detailed error information"]>>,
     metadata  |-> metadataOf(cfg, duration)]

successResult(cfg, resources, endpoints, duration) ==
    [success   |-> TRUE,
     resources |-> resources,
     endpoints |-> endpoints,
     metadata  |-> metadataOf(cfg, duration)]

Pending == [state |-> "pending"]
Resolved(value) == [state |-> "resolved", value |-> value]
Rejected(reason) == [state |-> "rejected", reason |-> reason]

(***************************************************************************)
(* The CloudFormation control plane, as the three commands see it.         *)
(***************************************************************************)
ServiceError == Err("AccessDenied", "User is not authorized to perform this operation")

NoUpdatesError == Err("ValidationError", "No updates are to be performed.")

\* The statuses from which the control plane starts an update.
UpdatableStatuses == {"CREATE_COMPLETE", "UPDATE_COMPLETE", "UPDATE_ROLLBACK_COMPLETE"}

DescribeStacksResponses(name) ==
    { IF stack.exists
      THEN [ok |-> TRUE, Stacks |-> <<stack>>]
      ELSE [ok |-> FALSE,
            error |-> Err("ValidationError",
                          "Stack with id " \o name \o " does not exist")],
      [ok |-> FALSE, error |-> ServiceError] }

CreateStackResponses(name, tmpl) ==
    { IF stack.exists
      THEN [ok |-> FALSE, stack |-> stack,
            error |-> Err("AlreadyExistsException",
                          "Stack [" \o name \o "] already exists")]
      ELSE [ok |-> TRUE,
            stack |-> [exists |-> TRUE, StackName |-> name,
                       StackStatus |-> "CREATE_IN_PROGRESS",
                       Outputs |-> tmpl.Outputs]],
      [ok |-> FALSE, stack |-> stack, error |-> ServiceError] }

UpdateStackResponses(name, tmpl) ==
    (IF ~stack.exists
     THEN { [ok |-> FALSE, stack |-> stack,
             error |-> Err("ValidationError",
                           "Stack [" \o name \o "] does not exist")] }
     ELSE IF stack.StackStatus \in UpdatableStatuses
     THEN { [ok |-> TRUE,
             stack |-> [stack EXCEPT !.StackStatus = "UPDATE_IN_PROGRESS",
                                     !.Outputs = tmpl.Outputs]],
            [ok |-> FALSE, stack |-> stack, error |-> NoUpdatesError] }
     ELSE { [ok |-> FALSE, stack |-> stack,
             error |-> Err("ValidationError",
                           "Stack:" \o name \o " is in " \o stack.StackStatus
                             \o " state and can not be updated.")] })
    \cup { [ok |-> FALSE, stack |-> stack, error |-> ServiceError] }

getStackIfExists(resp) ==
    IF resp.ok
    THEN Return(IF Len(resp.Stacks) > 0 THEN resp.Stacks[1] ELSE Null)
    ELSE IF resp.error.name = "ValidationError"
            /\ includes(resp.error.message, "does not exist")
    THEN Return(Null)
    ELSE Throw(resp.error)

(***************************************************************************)
(* waitForStackOperation's verdict on one probed stack.                    *)
(***************************************************************************)
stackFailedError(status) ==
    Err("Error", "Stack operation failed with status: " \o status)

timeoutError(maxWaitTime) ==
    Err("Error", "Stack operation timed out after "
                   \o ToString(maxWaitTime \div 1000) \o " seconds")

\* Mutant: a stack that is gone is waited for.
pollVerdict_waitsForStack(name, stk) ==
    IF ~Truthy(stk) THEN [do |-> "wait"]
    ELSE IF endsWith(stk.StackStatus, "_COMPLETE")
    THEN IF includes(stk.StackStatus, "FAILED") \/ includes(stk.StackStatus, "ROLLBACK")
         THEN [do |-> "throw", error |-> stackFailedError(stk.StackStatus)]
         ELSE [do |-> "return"]
    ELSE IF endsWith(stk.StackStatus, "_FAILED")
    THEN [do |-> "throw", error |-> stackFailedError(stk.StackStatus)]
    ELSE [do |-> "wait"]

\* Mutant: any status ending in _COMPLETE returns the stack.
pollVerdict_ignoresRollback(name, stk) ==
    IF ~Truthy(stk)
    THEN [do |-> "throw", error |-> Err("Error", "Stack " \o name \o " not found")]
    ELSE IF endsWith(stk.StackStatus, "_COMPLETE")
    THEN [do |-> "return"]
    ELSE IF endsWith(stk.StackStatus, "_FAILED")
    THEN [do |-> "throw", error |-> stackFailedError(stk.StackStatus)]
    ELSE [do |-> "wait"]

\* "return": the loop returns the stack; "throw": it throws; "wait": it sleeps.
pollVerdict(name, stk) ==
    IF ~Truthy(stk)
    THEN [do |-> "throw", error |-> Err("Error", "Stack " \o name \o " not found")]
    ELSE IF endsWith(stk.StackStatus, "_COMPLETE")
    THEN IF includes(stk.StackStatus, "FAILED") \/ includes(stk.StackStatus, "ROLLBACK")
         THEN [do |-> "throw", error |-> stackFailedError(stk.StackStatus)]
         ELSE [do |-> "return"]
    ELSE IF endsWith(stk.StackStatus, "_FAILED")
    THEN [do |-> "throw", error |-> stackFailedError(stk.StackStatus)]
    ELSE [do |-> "wait"]

(***************************************************************************)
(* Code sync targets, endpoints and resources read off the stack.          *)
(***************************************************************************)
TypeErrorOnNull(prop) ==
    Err("TypeError", "Cannot read properties of null (reading '" \o prop \o "')")

extractBucketName(sr) ==
    IF ~Truthy(sr) THEN Throw(TypeErrorOnNull("StackName"))
    ELSE Return(toLowerCase(sr.StackName \o "-frontend-bucket"))

extractFunctionName(sr) ==
    IF ~Truthy(sr) THEN Throw(TypeErrorOnNull("StackName"))
    ELSE Return(sr.StackName \o "-function")

\* Mutant: an output with any other key becomes a website endpoint.
endpointsOf_keepsEveryOutput(outputs) ==
    [i \in 1..Len(outputs) |->
       IF outputs[i].OutputKey = "FunctionURL"
       THEN [type |-> "function_url", url |-> outputs[i].OutputValue,
             description |-> "Lambda function URL"]
       ELSE [type |-> "website", url |-> outputs[i].OutputValue,
             description |-> "Static website URL"]]

RECURSIVE endpointsOf(_)
endpointsOf(outputs) ==
    IF outputs = <<>> THEN <<>>
    ELSE LET output == Head(outputs) IN
         (IF output.OutputKey = "WebsiteURL"
          THEN <<[type |-> "website", url |-> output.OutputValue,
                  description |-> "Static website URL"]>>
          ELSE IF output.OutputKey = "FunctionURL"
          THEN <<[type |-> "function_url", url |-> output.OutputValue,
                  description |-> "Lambda function URL"]>>
          ELSE <<>>)
         \o endpointsOf(Tail(outputs))

verifyDeployment(sr) ==
    IF ~Truthy(sr) THEN Throw(TypeErrorOnNull("Outputs"))
    ELSE Return(endpointsOf(sr.Outputs))

RECURSIVE resourcesOf(_, _)
resourcesOf(sr, outputs) ==
    IF outputs = <<>> THEN <<>>
    ELSE LET output == Head(outputs) IN
         (IF output.OutputKey = "WebsiteURL"
          THEN <<[type |-> "S3::Bucket", name |-> "Frontend Bucket",
                  arn |-> "arn:aws:s3:::" \o extractBucketName(sr).value,
                  status |-> "created"]>>
          ELSE IF output.OutputKey = "FunctionURL"
          THEN <<[type |-> "Lambda::Function", name |-> "Backend Function",
                  arn |-> "arn:aws:lambda:undefined:undefined:function:"
                            \o extractFunctionName(sr).value,
                  status |-> "created"]>>
          ELSE <<>>)
         \o resourcesOf(sr, Tail(outputs))

extractResources(sr) ==
    IF ~Truthy(sr) THEN Throw(TypeErrorOnNull("Outputs"))
    ELSE Return(resourcesOf(sr, sr.Outputs))

createStackTags(cfg) ==
    << [Key |-> "Application", Value |-> cfg.application.name],
       [Key |-> "ManagedBy", Value |-> "AWS-Deployment-Template"] >>
    \o cfg.deployment.tags

stackParameters(cfg) ==
    << [ParameterKey |-> "ApplicationName", ParameterValue |-> cfg.application.name] >>

updateCommand(name, tmpl, cfg) ==
    [api |-> "UpdateStack", StackName |-> name, TemplateBody |-> tmpl,
     Parameters |-> stackParameters(cfg),
     Capabilities |-> <<"CAPABILITY_IAM", "CAPABILITY_NAMED_IAM">>]

createCommand(name, tmpl, cfg) ==
    [api |-> "CreateStack", StackName |-> name, TemplateBody |-> tmpl,
     Parameters |-> stackParameters(cfg),
     Capabilities |-> <<"CAPABILITY_IAM", "CAPABILITY_NAMED_IAM">>,
     Tags |-> createStackTags(cfg)]

\* Mutant: the probe's result is ignored and a stack is always created.
submitCommand_alwaysCreates(existing, name, tmpl, cfg) ==
    createCommand(name, tmpl, cfg)

\* Lines 123-146: the existence probe's result selects the command.
submitCommand(existing, name, tmpl, cfg) ==
    IF Truthy(existing) THEN updateCommand(name, tmpl, cfg)
    ELSE createCommand(name, tmpl, cfg)

(***************************************************************************)
(* Exception handlers.  An error raised at an await runs the enclosing     *)
(* catch blocks in the same step, up to the next await.                    *)
(***************************************************************************)
\* deploy()'s catch: the promise resolves to a failure result.
deployCatch(r, error, ph) ==
    /\ pc' = Set(pc, r, "done")
    /\ promise' = Set(promise, r,
                      Resolved(failureResult(config[r], error, elapsed'[r])))
    /\ phases' = Set(phases, r, ph)

\* Mutant: the catch block has no no-op case.
deployStackCatch_rethrowsAll(r, error, ph) == deployCatch(r, error, ph)

\* Mutant: every error of deployStack is taken for the no-op.
deployStackCatch_swallowsAll(r, error, ph) ==
    /\ pc' = Set(pc, r, "noop")
    /\ phases' = Set(phases, r, Append(ph, "noop"))
    /\ UNCHANGED promise

\* Mutant: "already exists" is taken for a no-op as well.
deployStackCatch_toleratesAlreadyExists(r, error, ph) ==
    IF \/ includes(error.message, "No updates are to be performed")
       \/ includes(error.message, "already exists")
    THEN /\ pc' = Set(pc, r, "noop")
         /\ phases' = Set(phases, r, Append(ph, "noop"))
         /\ UNCHANGED promise
    ELSE deployCatch(r, error, ph)

\* deployStack()'s catch: the no-op message re-probes, anything else is rethrown.
deployStackCatch(r, error, ph) ==
    IF includes(error.message, "No updates are to be performed")
    THEN /\ pc' = Set(pc, r, "noop")
         /\ phases' = Set(phases, r, Append(ph, "noop"))
         /\ UNCHANGED promise
    ELSE deployCatch(r, error, ph)

\* The run goes on to its next await.
goto(r, label, ph) ==
    /\ pc' = Set(pc, r, label)
    /\ phases' = Set(phases, r, ph)
    /\ UNCHANGED promise

(***************************************************************************)
(* deploy(), one action per await.                                         *)
(***************************************************************************)
\* Lines 31-45: stack name and metadata, then, inside the try,
\* validateDeployment.  An error of lines 32-41 has no handler: the promise
\* deploy() returned is rejected.
ValidateDeployment(r) ==
    /\ pc[r] = "start"
    /\ UNCHANGED <<config, existingStack, polled, stackResult, elapsed, awsCalls,
                   submissions, syncCalls, template, stack>>
    /\ LET n  == stackName(config[r])
           v  == validateDeployment(config[r])
           ph == Append(phases[r], "validation")
       IN  IF n.threw
           THEN /\ pc' = Set(pc, r, "done")
                /\ promise' = Set(promise, r, Rejected(n.error))
                /\ UNCHANGED phases
           ELSE IF v.threw THEN deployCatch(r, v.error, ph)
           ELSE goto(r, "template", Append(ph, "template"))

\* Lines 47-51: generateTemplate, then deployStack is entered.
GenerateTemplate(r) ==
    /\ pc[r] = "template"
    /\ UNCHANGED <<config, existingStack, polled, stackResult, elapsed, awsCalls,
                   submissions, syncCalls, stack>>
    /\ LET t == generateTemplate(config[r])
       IN  IF t.threw
           THEN /\ deployCatch(r, t.error, phases[r])
                /\ UNCHANGED template
           ELSE /\ template' = Set(template, r, t.value)
                /\ goto(r, "probe", Append(phases[r], "submission"))

\* Lines 119-121: the existence probe.
ProbeStack(r) ==
    /\ pc[r] = "probe"
    /\ awsCalls' = Set(awsCalls, r, awsCalls[r] \cup {"DescribeStacks"})
    /\ UNCHANGED <<config, polled, stackResult, elapsed, submissions, syncCalls,
                   template, stack>>
    /\ \E resp \in DescribeStacksResponses(stackNameOf(config[r])) :
         LET g == getStackIfExists(resp)
         IN  IF g.threw
             THEN /\ deployStackCatch(r, g.error, phases[r])
                  /\ UNCHANGED existingStack
             ELSE /\ existingStack' = Set(existingStack, r, g.value)
                  /\ goto(r, "submit", phases[r])

\* Lines 123-149: UpdateStack or CreateStack, then waitForStackOperation is
\* entered (startTime is taken, the loop condition holds, the first probe is sent).
SubmitStack(r) ==
    /\ pc[r] = "submit"
    /\ existingStack' = Set(existingStack, r, Null)   \* not read after the branch
    /\ UNCHANGED <<config, polled, stackResult, syncCalls, template>>
    /\ LET name == stackNameOf(config[r])
           cmd  == submitCommand(existingStack[r], name, template[r], config[r])
           resps == IF cmd.api = "UpdateStack"
                    THEN UpdateStackResponses(name, template[r])
                    ELSE CreateStackResponses(name, template[r])
       IN  /\ awsCalls' = Set(awsCalls, r, awsCalls[r] \cup {cmd.api})
           /\ \E resp \in resps :
                /\ stack' = resp.stack
                /\ submissions' = Set(submissions, r,
                       Append(submissions[r],
                              [command |-> cmd, accepted |-> resp.ok,
                               error |-> IF resp.ok THEN Null ELSE resp.error]))
                /\ IF resp.ok
                   THEN /\ elapsed' = Set(elapsed, r, 0)
                        /\ goto(r, "poll", Append(phases[r], "polling"))
                   ELSE /\ UNCHANGED elapsed
                        /\ deployStackCatch(r, resp.error, phases[r])

\* Lines 230-250: one probe of the polling loop and the verdict on it.
PollProbe(r) ==
    /\ pc[r] = "poll"
    /\ awsCalls' = Set(awsCalls, r, awsCalls[r] \cup {"DescribeStacks"})
    /\ UNCHANGED <<config, existingStack, submissions, syncCalls, template, stack>>
    /\ \E resp \in DescribeStacksResponses(stackNameOf(config[r])),
          latency \in ProbeLatencies :
         /\ elapsed' = Set(elapsed, r, elapsed[r] + latency)
         /\ LET g == getStackIfExists(resp)
            IN  IF g.threw
                THEN /\ deployStackCatch(r, g.error, phases[r])
                     /\ UNCHANGED <<polled, stackResult>>
                ELSE LET v == pollVerdict(stackNameOf(config[r]), g.value)
                     IN  /\ polled' = Set(polled, r, g.value)
                         /\ IF v.do = "throw"
                            THEN /\ deployStackCatch(r, v.error, phases[r])
                                 /\ UNCHANGED stackResult
                            ELSE IF v.do = "return"
                            THEN /\ stackResult' = Set(stackResult, r, g.value)
                                 /\ goto(r, "sync_frontend",
                                         Append(phases[r], "code_sync"))
                            ELSE /\ goto(r, "sleep", phases[r])
                                 /\ UNCHANGED stackResult

\* Mutant: startTime is taken inside the loop, so every iteration starts its
\* own clock.
PollSleep_restartsClock(r) ==
    /\ pc[r] = "sleep"
    /\ elapsed' = Set(elapsed, r, 0)
    /\ polled' = Set(polled, r, Null)
    /\ UNCHANGED <<config, existingStack, stackResult, awsCalls,
                   submissions, syncCalls, template, stack>>
    /\ IF elapsed'[r] < MaxWaitTime
       THEN goto(r, "poll", phases[r])
       ELSE deployStackCatch(r, timeoutError(MaxWaitTime), phases[r])

\* Lines 229, 250-253: the sleep ends and the loop condition is evaluated.
PollSleep(r) ==
    /\ pc[r] = "sleep"
    /\ elapsed' = Set(elapsed, r, elapsed[r] + PollInterval)
    /\ polled' = Set(polled, r, Null)                 \* block-scoped to one iteration
    /\ UNCHANGED <<config, existingStack, stackResult, awsCalls,
                   submissions, syncCalls, template, stack>>
    /\ IF elapsed'[r] < MaxWaitTime
       THEN goto(r, "poll", phases[r])
       ELSE deployStackCatch(r, timeoutError(MaxWaitTime), phases[r])

\* Lines 152-154: the probe of deployStack's catch block.
NoOpProbe(r) ==
    /\ pc[r] = "noop"
    /\ awsCalls' = Set(awsCalls, r, awsCalls[r] \cup {"DescribeStacks"})
    /\ UNCHANGED <<config, existingStack, polled, elapsed, submissions, syncCalls,
                   template, stack>>
    /\ \E resp \in DescribeStacksResponses(stackNameOf(config[r])) :
         LET g == getStackIfExists(resp)
         IN  IF g.threw
             THEN /\ deployCatch(r, g.error, phases[r])
                  /\ UNCHANGED stackResult
             ELSE /\ stackResult' = Set(stackResult, r, g.value)
                  /\ goto(r, "sync_frontend", Append(phases[r], "code_sync"))

\* Lines 163-172: the frontend half of deployApplicationCode.
DeployFrontendAssets(r) ==
    /\ pc[r] = "sync_frontend"
    /\ UNCHANGED <<config, existingStack, polled, stackResult, elapsed, submissions,
                   template, stack>>
    /\ LET cfg == config[r]
           b   == extractBucketName(stackResult[r])
       IN  IF /\ cfg.application.type \in {"frontend", "fullstack"}
              /\ Truthy(cfg.frontend)
              /\ cfg.frontend.source_dir # ""
           THEN IF b.threw
                THEN /\ deployCatch(r, b.error, phases[r])
                     /\ UNCHANGED <<awsCalls, syncCalls>>
                ELSE IF b.value = ""
                THEN /\ goto(r, "sync_backend", phases[r])
                     /\ UNCHANGED <<awsCalls, syncCalls>>
                ELSE /\ awsCalls' = Set(awsCalls, r, awsCalls[r] \cup {"S3.PutObject"})
                     /\ syncCalls' = Set(syncCalls, r,
                            Append(syncCalls[r],
                                   [call |-> "deployFrontendAssets",
                                    target |-> b.value,
                                    sourceDir |-> cfg.frontend.source_dir]))
                     /\ \/ goto(r, "sync_backend", phases[r])
                        \/ deployCatch(r, Err("Error", "Failed to upload to " \o b.value),
                                       phases[r])
           ELSE /\ goto(r, "sync_backend", phases[r])
                /\ UNCHANGED <<awsCalls, syncCalls>>

\* Lines 174-185, 57: the backend half, then verifyDeployment is entered.
UpdateFunctionCode(r) ==
    /\ pc[r] = "sync_backend"
    /\ UNCHANGED <<config, existingStack, polled, stackResult, elapsed, submissions,
                   template, stack>>
    /\ LET cfg  == config[r]
           f    == extractFunctionName(stackResult[r])
           next == Append(phases[r], "output_extraction")
       IN  IF /\ cfg.application.type \in {"backend", "fullstack"}
              /\ Truthy(cfg.backend)
              /\ cfg.backend.source_dir # ""
           THEN IF f.threw
                THEN /\ deployCatch(r, f.error, phases[r])
                     /\ UNCHANGED <<awsCalls, syncCalls>>
                ELSE IF f.value = ""
                THEN /\ goto(r, "verify", next)
                     /\ UNCHANGED <<awsCalls, syncCalls>>
                ELSE /\ awsCalls' = Set(awsCalls, r,
                                        awsCalls[r] \cup {"Lambda.UpdateFunctionCode"})
                     /\ syncCalls' = Set(syncCalls, r,
                            Append(syncCalls[r],
                                   [call |-> "updateFunctionCode",
                                    target |-> f.value,
                                    sourceDir |-> cfg.backend.source_dir]))
                     /\ \/ goto(r, "verify", next)
                        \/ deployCatch(r,
                               Err("Error", "Failed to update function code for "
                                              \o f.value \o ": " \o ServiceError.message),
                               phases[r])
           ELSE /\ goto(r, "verify", next)
                /\ UNCHANGED <<awsCalls, syncCalls>>

\* Lines 57-68: verifyDeployment, extractResources, the success result.
VerifyDeployment(r) ==
    /\ pc[r] = "verify"
    /\ UNCHANGED <<config, existingStack, polled, stackResult, elapsed, awsCalls,
                   submissions, syncCalls, template, stack>>
    /\ LET endpoints == verifyDeployment(stackResult[r])
           resources == extractResources(stackResult[r])
       IN  IF endpoints.threw THEN deployCatch(r, endpoints.error, phases[r])
           ELSE IF resources.threw THEN deployCatch(r, resources.error, phases[r])
           ELSE /\ pc' = Set(pc, r, "done")
                /\ promise' = Set(promise, r,
                       Resolved(successResult(config[r], resources.value,
                                              endpoints.value, elapsed[r])))
                /\ UNCHANGED phases

RunStep(r) ==
    /\ UNCHANGED <<namingVars, serviceVars>>
    /\ \/ ValidateDeployment(r)
       \/ GenerateTemplate(r)
       \/ ProbeStack(r)
       \/ SubmitStack(r)
       \/ PollProbe(r)
       \/ PollSleep(r)
       \/ NoOpProbe(r)
       \/ DeployFrontendAssets(r)
       \/ UpdateFunctionCode(r)
       \/ VerifyDeployment(r)

(***************************************************************************)
(* The control plane's own progress, and deletion by another party.        *)
(***************************************************************************)
runVars == <<config, pc, promise, existingStack, polled, stackResult, elapsed,
             awsCalls, submissions, syncCalls, phases, template>>

StatusSuccessors(status) ==
    CASE status = "CREATE_IN_PROGRESS" ->
           {"CREATE_COMPLETE", "CREATE_FAILED", "ROLLBACK_IN_PROGRESS"}
      [] status = "ROLLBACK_IN_PROGRESS" -> {"ROLLBACK_COMPLETE", "ROLLBACK_FAILED"}
      [] status = "UPDATE_IN_PROGRESS" ->
           {"UPDATE_COMPLETE_CLEANUP_IN_PROGRESS", "UPDATE_ROLLBACK_IN_PROGRESS",
            "UPDATE_FAILED"}
      [] status = "UPDATE_COMPLETE_CLEANUP_IN_PROGRESS" -> {"UPDATE_COMPLETE"}
      [] status = "UPDATE_ROLLBACK_IN_PROGRESS" ->
           {"UPDATE_ROLLBACK_COMPLETE", "UPDATE_ROLLBACK_FAILED"}
      [] status = "DELETE_IN_PROGRESS" -> {"DELETE_FAILED"}
      [] OTHER -> {}

CfnProgress ==
    /\ stack.exists
    /\ \E next \in StatusSuccessors(stack.StackStatus) :
         stack' = [stack EXCEPT !.StackStatus = next]
    /\ UNCHANGED runVars

CfnDeleteStack ==
    /\ stack.exists
    /\ StatusSuccessors(stack.StackStatus) = {}
    /\ stack' = [stack EXCEPT !.StackStatus = "DELETE_IN_PROGRESS"]
    /\ UNCHANGED runVars

CfnDeleted ==
    /\ stack.exists
    /\ stack.StackStatus = "DELETE_IN_PROGRESS"
    /\ stack' = Null
    /\ UNCHANGED runVars

CfnStep ==
    /\ UNCHANGED <<namingVars, serviceVars>>
    /\ (CfnProgress \/ CfnDeleteStack \/ CfnDeleted)

(***************************************************************************)
(* ResourceNamingService (config/naming.ts): strings, hash, sanitization.  *)
(***************************************************************************)
\* The printable ASCII characters of codes 32 to 95 and of codes 97 to 126.
AsciiLow ==
    " !\"#$%&'()*+,-./0123456789:;<=>?@ABCDEFGHIJKLMNOPQRSTUVWXYZ[\\]^_"
AsciiHigh == "abcdefghijklmnopqrstuvwxyz{|}~"

AsciiLowSet == CharsOf(AsciiLow)

IndexOf(s, c) == CHOOSE i \in 1..Len(s) : SubSeq(s, i, i) = c

\* String.prototype.charCodeAt, for one character.
CharCodes ==
    [c \in {SubSeq(AsciiLow, i, i) : i \in 1..Len(AsciiLow)}
           \cup {SubSeq(AsciiHigh, i, i) : i \in 1..Len(AsciiHigh)} |->
       IF c \in AsciiLowSet
       THEN 31 + IndexOf(AsciiLow, c)
       ELSE 96 + IndexOf(AsciiHigh, c)]

Digits == "0123456789"

\* /[a-zA-Z]/ and /[a-zA-Z0-9-]/
LetterChars == CharsOf(LowerChars) \cup CharsOf(UpperChars)
NameChars == LetterChars \cup CharsOf(Digits) \cup {"-"}

\* Number.prototype.toString(36): the digits.
Base36Digits == Digits \o LowerChars

\* A 32-bit integer is kept as its two 16-bit halves <<high, low>>.
Half == 65536

\* hash = ((hash << 5) - hash) + char; hash = hash & hash
hashStep(hash, char) ==
    LET low  == hash[2] * 31 + char
        high == hash[1] * 31 + (low \div Half)
    IN  <<high % Half, low % Half>>

\* The loop over the characters of input, from left to right.
RECURSIVE hashOf(_, _)
hashOf(hash, input) ==
    IF Len(input) = 0 THEN hash
    ELSE IF Len(input) = 1 THEN hashStep(hash, CharCodes[input])
    ELSE LET sofar == hashOf(hash, Left(input))
         IN  CASE sofar[1] \in 0..(Half - 1) -> hashOf(sofar, Right(input))

\* Math.abs of a 32-bit integer: the sign bit set means negative.
abs(hash) ==
    IF hash[1] < Half \div 2 THEN hash
    ELSE << (Half - 1 - hash[1] + (IF hash[2] = 0 THEN 1 ELSE 0)) % Half,
            (Half - hash[2]) % Half >>

RECURSIVE toString36(_)
toString36(n) ==
    LET mid   == (n[1] % 36) * Half + n[2]
        rest  == <<n[1] \div 36, mid \div 36>>
        digit == SubSeq(Base36Digits, (mid % 36) + 1, (mid % 36) + 1)
    IN  IF rest = <<0, 0>> THEN digit ELSE toString36(rest) \o digit

\* String.prototype.substring(0, n)
substring(s, n) == SubSeq(s, 1, IF n < Len(s) THEN n ELSE Len(s))

generateShortHash(input) ==
    substring(toString36(abs(hashOf(<<0, 0>>, input))), 6)

\* name.replace(/[^a-zA-Z0-9-]/g, '-')
RECURSIVE replaceInvalid(_)
replaceInvalid(s) ==
    IF \A i \in 1..Len(s) : SubSeq(s, i, i) \in NameChars THEN s
    ELSE IF Len(s) = 1 THEN (IF s \in NameChars THEN s ELSE "-")
    ELSE replaceInvalid(Left(s)) \o replaceInvalid(Right(s))

\* sanitized.replace(/-+/g, '-')
RECURSIVE collapseHyphens(_)
collapseHyphens(s) ==
    IF ~includes(s, "--") THEN s
    ELSE LET l == collapseHyphens(Left(s))
             r == collapseHyphens(Right(s))
         IN  IF SubSeq(l, Len(l), Len(l)) = "-" /\ SubSeq(r, 1, 1) = "-"
             THEN l \o SubSeq(r, 2, Len(r))
             ELSE l \o r

\* sanitized.replace(/^-+|-+$/g, '')
trimHyphens(s) ==
    LET Kept(i) == SubSeq(s, i, i) # "-"
    IN  IF s = "" \/ (Kept(1) /\ Kept(Len(s))) THEN s
        ELSE IF \A i \in 1..Len(s) : ~Kept(i) THEN ""
        ELSE SubSeq(s,
                 CHOOSE i \in 1..Len(s) :
                     Kept(i) /\ \A j \in 1..(i - 1) : ~Kept(j),
                 CHOOSE i \in 1..Len(s) :
                     Kept(i) /\ \A j \in (i + 1)..Len(s) : ~Kept(j))

sanitizeName(name) ==
    LET sanitized == trimHyphens(collapseHyphens(replaceInvalid(name)))
    IN  IF sanitized = "" THEN "app"
        ELSE IF SubSeq(sanitized, 1, 1) \notin LetterChars THEN "app-" \o sanitized
        ELSE sanitized

\* Mutant: the hyphen before the hash is not counted.
validateAndTruncate_forgetsHyphen(name, maxLength, resourceType) ==
    IF Len(name) <= maxLength THEN name
    ELSE LET hash == generateShortHash(name)
         IN  substring(name, maxLength - Len(hash)) \o "-" \o hash

validateAndTruncate(name, maxLength, resourceType) ==
    IF Len(name) <= maxLength THEN name
    ELSE LET hash == generateShortHash(name)
             truncatedLength == maxLength - Len(hash) - 1
         IN  substring(name, truncatedLength) \o "-" \o hash

(***************************************************************************)
(* ResourceNamingService: the names of one deployment.                     *)
(***************************************************************************)
maxStackNameLength == 128
maxS3BucketNameLength == 63
maxLambdaNameLength == 64
maxRoleNameLength == 64

\* parts.filter(Boolean).join('-'): undefined and '' are both dropped.
RECURSIVE joinParts(_)
joinParts(parts) ==
    IF parts = <<>> THEN ""
    ELSE LET rest == joinParts(Tail(parts))
         IN  IF Head(parts) = "" THEN rest
             ELSE IF rest = "" THEN Head(parts)
             ELSE Head(parts) \o "-" \o rest

\* config.deployment.tags?.[key]; '' stands for undefined.
tagValue(cfg, key) ==
    LET tags == cfg.deployment.tags
        hits == {i \in 1..Len(tags) : tags[i].Key = key}
    IN  IF hits = {} THEN "" ELSE tags[CHOOSE i \in hits : TRUE].Value

extractPrefix(cfg) == tagValue(cfg, "Prefix")
extractSuffix(cfg) == tagValue(cfg, "Suffix")

\* Date.now().toString(36)
RECURSIVE timestampOf(_)
timestampOf(digits) ==
    IF digits = <<>> THEN ""
    ELSE SubSeq(Base36Digits, Head(digits) + 1, Head(digits) + 1)
         \o timestampOf(Tail(digits))

\* config.applicationName || 'app'
nameOrApp(nc) == IF nc.applicationName = "" THEN "app" ELSE nc.applicationName

generateStackName(nc) ==
    validateAndTruncate(
        sanitizeName(joinParts(<<nc.prefix, nc.applicationName, nc.environment,
                                 nc.suffix>>)),
        maxStackNameLength, "stack")

generateS3BucketName(nc, timestamp) ==
    validateAndTruncate(
        toLowerCase(sanitizeName(joinParts(<<nc.prefix, nameOrApp(nc), nc.environment,
                                             "frontend", timestamp, nc.suffix>>))),
        maxS3BucketNameLength, "s3-bucket")

generateLambdaFunctionName(nc) ==
    validateAndTruncate(
        sanitizeName(joinParts(<<nc.prefix, nameOrApp(nc), nc.environment,
                                 "lambda", nc.suffix>>)),
        maxLambdaNameLength, "lambda")

\* generateLambdaRoleName with the function's discriminator.
generateLambdaRoleName_asFunction(nc) ==
    validateAndTruncate(
        sanitizeName(joinParts(<<nc.prefix, nameOrApp(nc), nc.environment,
                                 "lambda", nc.suffix>>)),
        maxRoleNameLength, "iam-role")

generateLambdaRoleName(nc) ==
    validateAndTruncate(
        sanitizeName(joinParts(<<nc.prefix, nameOrApp(nc), nc.environment,
                                 "lambda-role", nc.suffix>>)),
        maxRoleNameLength, "iam-role")

generateApiGatewayName(nc) ==
    sanitizeName(joinParts(<<nc.prefix, nameOrApp(nc), nc.environment,
                             "api", nc.suffix>>))

generateLogGroupName(nc) == "/aws/lambda/" \o generateLambdaFunctionName(nc)

\* needsLambda without the test of the type.
needsLambda_forEveryType(cfg) == TRUE

needsS3Bucket(cfg) == cfg.application.type \in {"frontend", "fullstack"}
needsLambda(cfg) == cfg.application.type \in {"backend", "fullstack"}
needsApiGateway(cfg) == FALSE

\* A field of ResourceNames that is set; an undefined field is left out.
Field(needed, key, value) ==
    IF needed THEN key :> value ELSE [k \in {} |-> ""]

\* generateResourceNames(config, environment), called when Date.now() reads
\* the given digits.
generateResourceNames(cfg, environment, digits) ==
    LET namingConfig == [applicationName |-> cfg.application.name,
                         environment     |-> environment,
                         region          |-> regionOf(cfg),
                         prefix          |-> extractPrefix(cfg),
                         suffix          |-> extractSuffix(cfg)]
        baseStackName == IF cfg.deployment.stack_name # ""
                         THEN cfg.deployment.stack_name
                         ELSE generateStackName(namingConfig)
    IN  Field(TRUE, "stackName",
              validateAndTruncate(baseStackName, maxStackNameLength, "stack"))
        @@ Field(needsS3Bucket(cfg), "s3BucketName",
                 generateS3BucketName(namingConfig, timestampOf(digits)))
        @@ Field(needsLambda(cfg), "lambdaFunctionName",
                 generateLambdaFunctionName(namingConfig))
        @@ Field(needsLambda(cfg), "lambdaExecutionRoleName",
                 generateLambdaRoleName(namingConfig))
        @@ Field(needsApiGateway(cfg), "apiGatewayName",
                 generateApiGatewayName(namingConfig))
        @@ Field(needsLambda(cfg), "logGroupName",
                 generateLogGroupName(namingConfig))

(***************************************************************************)
(* Callers of the naming service and the wall clock.                       *)
(***************************************************************************)
\* Date.now() when the service is first called: "mhl8e800", November 2025.
Epoch == <<22, 17, 21, 8, 14, 8, 0, 0>>

\* The milliseconds the clock is followed for, and the calls made.
MaxTicks == 1
MaxNamingCalls == 2

\* Instances of ResourceNamingService (createNamingService).
Services == {1, 2}

\* 46 characters the validator accepts, and the 120 of an unvalidated config.
LongName == "customer-billing-portal-storefront-service-aa0"
RawName ==
    "aaaaaaaaaaaaaaaaaaaaaaaaaaaaaaaaaaaaaaaaaaaaaaaaaaaaaaaaaaaa"
    \o "aaaaaaaaaaaaaaaaaaaaaaaaaaaaaaaaaaaaaaaaaaaaaaaaaaaaaaaaaaaa"

ApplicationNames == {"", "my-app", "123_app!!", LongName, RawName}
Environments == {"", "production"}
NamingTags ==
    { <<>>,
      <<[Key |-> "Prefix", Value |-> "acme"], [Key |-> "Suffix", Value |-> "v2"]>> }
StackNameOverrides == {"", "Custom--Stack"}

\* What a caller passes to generateResourceNames: a config whose sections
\* fit its type, and the optional environment ('' for undefined).
NamingRequests ==
    { [config |->
         [application |-> [name |-> n, type |-> t],
          aws         |-> [region |-> ""],
          frontend    |-> IF t \in {"frontend", "fullstack"}
                          THEN Section("./dist") ELSE Null,
          backend     |-> IF t \in {"backend", "fullstack"}
                          THEN Section("./src") ELSE Null,
          deployment  |-> [stack_name |-> o, tags |-> g]],
       environment |-> e] :
         n \in ApplicationNames, t \in AppTypes, e \in Environments,
         g \in NamingTags, o \in StackNameOverrides }

\* One more millisecond: the digits are incremented with carry.
RECURSIVE tick(_)
tick(digits) ==
    IF digits = <<>> THEN <<>>
    ELSE LET last == digits[Len(digits)]
             front == SubSeq(digits, 1, Len(digits) - 1)
         IN  IF last < 35 THEN Append(front, last + 1)
             ELSE Append(tick(front), 0)

\* No caller of the naming service: the state of the orchestrator's specs.
NamingIdle ==
    /\ now = Epoch
    /\ request = Null
    /\ namings = <<>>

\* generateResourceNames on instances that keep an environment of their own.
GenerateResourceNames_perInstance(s) ==
    /\ Len(namings) < MaxNamingCalls
    /\ namings' = Append(namings,
           [service     |-> s,
            config      |-> request.config,
            environment |-> request.environment,
            names       |-> generateResourceNames(
                                request.config,
                                IF s = 1 THEN request.environment ELSE "staging",
                                now)])
    /\ UNCHANGED <<now, request, runVars, stack>>

\* Lines 52-71: one call of generateResourceNames on an instance.
GenerateResourceNames(s) ==
    /\ Len(namings) < MaxNamingCalls
    /\ namings' = Append(namings,
           [service     |-> s,
            config      |-> request.config,
            environment |-> request.environment,
            names       |-> generateResourceNames(request.config,
                                                  request.environment, now)])
    /\ UNCHANGED <<now, request, runVars, stack>>

\* The wall clock moves on between two calls.
ClockTick ==
    /\ now[Len(now)] < MaxTicks
    /\ now' = tick(now)
    /\ UNCHANGED <<request, namings, runVars, stack>>

\* The caller sets or drops the stack_name override of its config.
SetStackName ==
    /\ \E o \in StackNameOverrides \ {request.config.deployment.stack_name} :
         request' = [request EXCEPT !.config.deployment.stack_name = o]
    /\ UNCHANGED <<now, namings, runVars, stack>>

NamingStep ==
    /\ UNCHANGED serviceVars
    /\ (\/ \E s \in Services : GenerateResourceNames(s)
        \/ ClockTick
        \/ SetStackName)

(***************************************************************************)
(* ResourceNamingService.checkNamingConflicts and its callers.             *)
(***************************************************************************)
\* The fields of ResourceNames, in the order Object.entries lists them.
ResourceNameFields ==
    <<"stackName", "s3BucketName", "lambdaFunctionName",
      "lambdaExecutionRoleName", "apiGatewayName", "logGroupName">>

\* checkNamingConflicts without the two toLowerCase calls.
checkNamingConflicts_caseSensitive(resourceNames, existingResources) ==
    LET existingSet ==
            {existingResources[i] : i \in 1..Len(existingResources)}
        hit(resourceType) ==
            /\ resourceType \in DOMAIN resourceNames
            /\ resourceNames[resourceType] # ""
            /\ resourceNames[resourceType] \in existingSet
        hits == SelectSeq(ResourceNameFields, hit)
    IN  [i \in 1..Len(hits) |-> hits[i] \o ": " \o resourceNames[hits[i]]]

\* Lines 79-91: an undefined or empty name is falsy and is skipped.
checkNamingConflicts(resourceNames, existingResources) ==
    LET existingSet ==
            {toLowerCase(existingResources[i]) : i \in 1..Len(existingResources)}
        hit(resourceType) ==
            /\ resourceType \in DOMAIN resourceNames
            /\ resourceNames[resourceType] # ""
            /\ toLowerCase(resourceNames[resourceType]) \in existingSet
        hits == SelectSeq(ResourceNameFields, hit)
    IN  [i \in 1..Len(hits) |-> hits[i] \o ": " \o resourceNames[hits[i]]]

\* The calls of checkNamingConflicts followed.
MaxConflictCalls == 2

\* Names of the tests, in either case, and an empty one.
ConflictNames == {"my-app-stack", "My-App-Stack", "other-stack", ""}

\* ResourceNames a caller may hold: stackName, and two optional fields.
ConflictResourceNames ==
    { Field(TRUE, "stackName", a) @@ Field(b # "-", "s3BucketName", b)
        @@ Field(c # "-", "lambdaFunctionName", c) :
        a \in ConflictNames \ {""},
        b \in {"-", "my-app-stack", "other-stack", ""},
        c \in {"-", "My-App-Stack"} }

ExistingResources ==
    {<<>>} \cup {<<a>> : a \in ConflictNames}
           \cup {<<a, b>> : a \in ConflictNames \ {""}, b \in ConflictNames \ {""}}

\* No caller of checkNamingConflicts.
ConflictsIdle ==
    /\ conflictArgs = Null
    /\ conflictCalls = <<>>

\* One call of checkNamingConflicts on the caller's two objects.
CheckNamingConflicts ==
    /\ Len(conflictCalls) < MaxConflictCalls
    /\ conflictCalls' = Append(conflictCalls,
           [resourceNames     |-> conflictArgs.resourceNames,
            existingResources |-> conflictArgs.existingResources,
            conflicts         |-> checkNamingConflicts(
                                      conflictArgs.resourceNames,
                                      conflictArgs.existingResources)])
    /\ UNCHANGED <<conflictArgs, namingVars, resolveVars, validatorVars,
                   runVars, stack>>

\* The caller learns of one more existing resource.
AddExistingResource ==
    /\ Len(conflictArgs.existingResources) < 2
    /\ \E a \in ConflictNames :
         conflictArgs' = [conflictArgs EXCEPT
                            !.existingResources = Append(@, a)]
    /\ UNCHANGED <<conflictCalls, namingVars, resolveVars, validatorVars,
                   runVars, stack>>

ConflictStep == CheckNamingConflicts \/ AddExistingResource

(***************************************************************************)
(* JavaScript values as deepMerge sees them: each value carries its type.  *)
(***************************************************************************)
Str(s) == [type |-> "string", value |-> s]
Num(n) == [type |-> "number", value |-> n]
Bool(b) == [type |-> "boolean", value |-> b]
Arr(a) == [type |-> "array", value |-> a]
Obj(f) == [type |-> "object", value |-> f]
Undefined == [type |-> "undefined", value |-> ""]

\* {}
EmptyObject == [k \in {} |-> Undefined]

\* object[key]
Get(object, key) == IF key \in DOMAIN object THEN object[key] ELSE Undefined

\* The truthiness of a value: undefined, false, '' and 0 are falsy.
ToBoolean(v) ==
    CASE v.type = "undefined" -> FALSE
      [] v.type = "boolean" -> v.value
      [] v.type = "string" -> v.value # ""
      [] v.type = "number" -> v.value # 0
      [] OTHER -> TRUE

\* deepMerge that assigns every source value, objects included.
deepMerge_shallow(target, source) ==
    [key \in DOMAIN target \cup DOMAIN source |->
        IF key \in DOMAIN source THEN source[key] ELSE target[key]]

\* Lines 313-327, on the objects' key -> value maps.  The result is a new
\* object; the values of the keys source does not have are target's own.
\* Where source has an object, target has an object or nothing.
RECURSIVE deepMerge(_, _)
deepMerge(target, source) ==
    [key \in DOMAIN target \cup DOMAIN source |->
        IF key \in DOMAIN source
        THEN IF source[key].type = "object"
             THEN Obj(deepMerge(IF ToBoolean(Get(target, key))
                                THEN target[key].value ELSE EmptyObject,
                                source[key].value))
             ELSE source[key]
        ELSE target[key]]

\* Mutant: the stack name is derived whether or not one is set.
resolveEnvironmentConfig_alwaysDerives(cfg, environment, environmentOverrides) ==
    LET resolvedConfig == deepMerge(cfg, environmentOverrides)
        deployment == resolvedConfig["deployment"].value
        name == resolvedConfig["application"].value["name"]
        named == ("stack_name" :> Str(generateStackName(
                     [applicationName |-> name.value,
                      environment     |-> environment,
                      region          |-> "us-east-1",
                      prefix          |-> "",
                      suffix          |-> ""]))) @@ deployment
        tags == IF ToBoolean(Get(named, "tags")) THEN named["tags"].value
                ELSE EmptyObject
        tagged == ("tags" :> Obj(tags @@ ("Environment" :> Str(environment)
                                          @@ "Application" :> name))) @@ named
    IN  [returned |-> ("deployment" :> Obj(tagged)) @@ resolvedConfig,
         config   |-> IF "deployment" \in DOMAIN environmentOverrides THEN cfg
                      ELSE ("deployment" :> Obj(tagged)) @@ cfg]

\* resolvedConfig.aws.region || 'us-east-1'
regionOfObject(resolvedConfig) ==
    LET region == Get(resolvedConfig["aws"].value, "region")
    IN  IF ToBoolean(region) THEN region.value ELSE "us-east-1"

\* Lines 100-126: the config returned, and the base config after the call.
\* resolvedConfig.deployment is the base config's own deployment object
\* unless the overrides have a deployment object to merge into a copy, so
\* the two assignments reach the base config.
resolveEnvironmentConfig(cfg, environment, environmentOverrides) ==
    LET resolvedConfig == deepMerge(cfg, environmentOverrides)
        deployment == resolvedConfig["deployment"].value
        name == Get(resolvedConfig["application"].value, "name")
        named ==
            IF ~ToBoolean(Get(deployment, "stack_name"))
            THEN ("stack_name" :> Str(generateStackName(
                     [applicationName |-> name.value,
                      environment     |-> environment,
                      region          |-> regionOfObject(resolvedConfig),
                      prefix          |-> "",
                      suffix          |-> ""]))) @@ deployment
            ELSE deployment
        tags == IF ToBoolean(Get(named, "tags"))
                THEN named["tags"].value ELSE EmptyObject
        tagged == ("tags" :> Obj(tags @@ ("Environment" :> Str(environment)
                                          @@ "Application" :> name))) @@ named
        shared == "deployment" \notin DOMAIN environmentOverrides
    IN  [returned |-> ("deployment" :> Obj(tagged)) @@ resolvedConfig,
         config   |-> IF shared THEN ("deployment" :> Obj(tagged)) @@ cfg
                      ELSE cfg]

(***************************************************************************)
(* Callers of resolveEnvironmentConfig.                                    *)
(***************************************************************************)
\* The calls of resolveEnvironmentConfig followed.
MaxResolveCalls == 2

ResolveEnvironments == {"staging", "production"}

\* The deployment section of a base config: nothing set, a tag of the
\* caller's own, the two tags the service derives, or an explicit stack name.
BaseDeployments ==
    { EmptyObject,
      "tags" :> Obj("CostCenter" :> Str("shared") @@ "Team" :> Str("web"))
      @@ "enable_monitoring" :> Bool(FALSE),
      "tags" :> Obj("Environment" :> Str("dev") @@ "Application" :> Str("legacy")),
      "stack_name" :> Str("custom-explicit-stack"),
      "stack_name" :> Str("custom-explicit-stack")
      @@ "tags" :> Obj("Prefix" :> Str("acme") @@ "Suffix" :> Str("v2")) }

\* 131 characters: a stack name no validated config has.
LongStackName == RawName \o "-stack-0001"

\* A validated and normalized backend config.  layers stands for a key of
\* array value, which the merge treats apart from objects.
BaseConfigs ==
    { "application" :> Obj("name" :> Str("my-app") @@ "type" :> Str("backend"))
      @@ "aws" :> Obj("region" :> Str("us-west-2"))
      @@ "backend" :> Obj("source_dir" :> Str("./src") @@ "memory" :> Num(512)
                          @@ "layers" :> Arr(<<Str("base"), Str("tracing")>>))
      @@ "deployment" :> Obj(d) : d \in BaseDeployments }

\* The backend overrides of the tests, with an array.
BackendOverrides ==
    "backend" :> Obj("memory" :> Num(1024) @@ "layers" :> Arr(<<Str("prod")>>)
                     @@ "environment_variables" :>
                           Obj("NODE_ENV" :> Str("production")))

\* Partial<DeploymentConfig>: none, a backend section, tags and a flag, a
\* derived tag, a stack name, another application name.
Overrides ==
    { EmptyObject,
      BackendOverrides,
      "deployment" :> Obj("tags" :> Obj("CostCenter" :> Str("production"))
                          @@ "enable_monitoring" :> Bool(TRUE)),
      "deployment" :> Obj("tags" :> Obj("Environment" :> Str("qa"))),
      "deployment" :> Obj("stack_name" :> Str("override-stack")),
      "deployment" :> Obj("stack_name" :> Str(LongStackName)),
      "application" :> Obj("name" :> Str("shop")) }

\* No caller of resolveEnvironmentConfig.
ResolveIdle ==
    /\ baseConfig = Null
    /\ resolutions = <<>>

\* One call of resolveEnvironmentConfig on the caller's base config.
ResolveEnvironmentConfig(environment, environmentOverrides) ==
    /\ Len(resolutions) < MaxResolveCalls
    /\ LET call == resolveEnvironmentConfig(baseConfig, environment,
                                            environmentOverrides)
       IN  /\ resolutions' = Append(resolutions,
                  [config               |-> baseConfig,
                   environment          |-> environment,
                   environmentOverrides |-> environmentOverrides,
                   returned             |-> call.returned])
           /\ baseConfig' = call.config
    /\ UNCHANGED <<namingVars, conflictVars, validatorVars, runVars, stack>>

\* The tags of a resolved config as the list the naming functions read.
RECURSIVE TagList(_)
TagList(tags) ==
    IF DOMAIN tags = {} THEN <<>>
    ELSE LET key == CHOOSE k \in DOMAIN tags : TRUE
         IN  <<[Key |-> key, Value |-> tags[key].value]>>
             \o TagList([k \in DOMAIN tags \ {key} |-> tags[k]])

\* A resolved config as the DeploymentConfig generateResourceNames reads.
AsDeploymentConfig(resolved) ==
    LET application == resolved["application"].value
        deployment == resolved["deployment"].value
        type == application["type"].value
    IN  [application |-> [name |-> application["name"].value, type |-> type],
         aws         |-> [region |-> regionOfObject(resolved)],
         frontend    |-> IF "frontend" \in DOMAIN resolved
                         THEN Section(resolved["frontend"].value["source_dir"].value)
                         ELSE Null,
         backend     |-> IF "backend" \in DOMAIN resolved
                         THEN Section(resolved["backend"].value["source_dir"].value)
                         ELSE Null,
         deployment  |->
            [stack_name |-> IF ToBoolean(Get(deployment, "stack_name"))
                            THEN deployment["stack_name"].value ELSE "",
             tags       |-> IF ToBoolean(Get(deployment, "tags"))
                            THEN TagList(deployment["tags"].value) ELSE <<>>]]

\* The caller names the resources of the config it resolved last, once, as
\* long as it has named the ones it resolved before.
NameResolved(environment) ==
    /\ Len(namings) + 1 = Len(resolutions)
    /\ Len(namings) < MaxNamingCalls
    /\ LET cfg == AsDeploymentConfig(resolutions[Len(resolutions)].returned)
       IN  namings' = Append(namings,
               [service     |-> 1,
                config      |-> cfg,
                environment |-> environment,
                names       |-> generateResourceNames(cfg, environment, now)])
    /\ UNCHANGED <<now, request, serviceVars, runVars, stack>>

ResolveStep ==
    \/ \E environment \in ResolveEnvironments, environmentOverrides \in Overrides :
          ResolveEnvironmentConfig(environment, environmentOverrides)
    \/ \E environment \in Environments : NameResolved(environment)

(***************************************************************************)
(* The config validator (Joi schema) and its callers.                      *)
(***************************************************************************)
\* /^[a-zA-Z0-9-_]+$/
ApplicationNameChars == NameChars \cup {"_"}

\* Lines 6-29: the messages for the application section; '' is a key that
\* is not there.
applicationErrors(application) ==
    IF ~Truthy(application) THEN <<"\"application\" is required">>
    ELSE (IF application.name = ""
          THEN <<"\"application.name\" is required">>
          ELSE (IF \E i \in 1..Len(application.name) :
                      SubSeq(application.name, i, i) \notin ApplicationNameChars
                THEN <<"Application name must contain only alphanumeric characters, hyphens, and underscores">>
                ELSE <<>>)
               \o (IF Len(application.name) > 50
                   THEN <<"Application name must be no more than 50 characters long">>
                   ELSE <<>>))
         \o (IF application.type = ""
             THEN <<"\"application.type\" is required">>
             ELSE IF application.type \notin {"frontend", "backend", "fullstack"}
             THEN <<"Application type must be one of: frontend, backend, fullstack">>
             ELSE <<>>)

\* application.type as the when() conditions read it.
typeRef(cfg) == IF Truthy(cfg.application) THEN cfg.application.type ELSE ""

\* Lines 47-50 and 68-79: the required keys of a section that is there.
contentErrors(key, section) ==
    (IF section.source_dir = ""
     THEN <<IF key = "frontend"
            THEN "Frontend source directory is required when application type includes frontend"
            ELSE "Backend source directory is required when application type includes backend">>
     ELSE <<>>)
    \o (IF key = "backend" /\ section.handler = ""
        THEN <<"Handler is required for backend applications">>
        ELSE <<>>)

\* Mutant: a section the type does not call for is optional.
sectionErrors_optional(key, section, needed) ==
    IF needed /\ ~Truthy(section) THEN <<"\"" \o key \o "\" is required">>
    ELSE IF Truthy(section) THEN contentErrors(key, section)
    ELSE <<>>

\* Lines 145-154: when(application.type): required, otherwise forbidden.
sectionErrors(key, section, needed) ==
    IF needed
    THEN IF Truthy(section) THEN contentErrors(key, section)
         ELSE <<"\"" \o key \o "\" is required">>
    ELSE IF Truthy(section) THEN <<"\"" \o key \o "\" is not allowed">>
         ELSE <<>>

\* is: Joi.valid(...) on application.type.  Whether a type that is not
\* there satisfies the condition is the library's choice, matchesUndefined.
isOneOf(cfg, types, matchesUndefined) ==
    IF typeRef(cfg) = "" THEN matchesUndefined ELSE typeRef(cfg) \in types

\* deploymentConfigSchema.validate with abortEarly: false: error.details
\* mapped to their messages, in the order of the schema's keys.
schemaErrors(cfg, matchesUndefined) ==
    applicationErrors(cfg.application)
    \o sectionErrors("frontend", cfg.frontend,
                     isOneOf(cfg, {"frontend", "fullstack"}, matchesUndefined))
    \o sectionErrors("backend", cfg.backend,
                     isOneOf(cfg, {"backend", "fullstack"}, matchesUndefined))
    \o (IF cfg.unknown_property
        THEN <<"\"unknown_property\" is not allowed">> ELSE <<>>)

\* Lines 164-189.
validateConfig(cfg, matchesUndefined) ==
    LET errors == schemaErrors(cfg, matchesUndefined)
    IN  [valid |-> errors = <<>>, errors |-> errors]

\* errors.join('\n')
RECURSIVE joinLines(_)
joinLines(errors) ==
    IF errors = <<>> THEN ""
    ELSE IF Len(errors) = 1 THEN errors[1]
    ELSE errors[1] \o "\n" \o joinLines(Tail(errors))

\* Lines 197-218: the value with the defaults of the schema, or the throw.
validateAndNormalizeConfig(cfg, matchesUndefined) ==
    LET errors == schemaErrors(cfg, matchesUndefined)
    IN  IF errors # <<>>
        THEN Throw(Err("Error", "Configuration validation failed:\n"
                                \o joinLines(errors)))
        ELSE Return([cfg EXCEPT !.aws = [region |-> regionOf(cfg)]])

\* The calls of the validator followed.
MaxValidatorCalls == 2

\* 51 characters.
TooLongName == LongName \o "-prod"

\* The objects the validator is called with: the application section absent
\* or with a name and a type that may be missing or wrong, each section
\* absent, complete or without a required key, an unknown key or none.
CandidateConfigs ==
    { [application      |-> a,
       aws              |-> [region |-> ""],
       frontend         |-> f,
       backend          |-> b,
       deployment       |-> Null,
       unknown_property |-> u] :
         a \in {Null} \cup
               { [exists |-> TRUE, name |-> n, type |-> t] :
                   n \in {"", "my-app", "my app!", TooLongName},
                   t \in AppTypes \cup {"worker", ""} },
         f \in {Null, Section("./dist"), Section("")},
         b \in {Null,
                [exists |-> TRUE, source_dir |-> "./src", handler |-> "index.handler"],
                [exists |-> TRUE, source_dir |-> "./src", handler |-> ""]},
         u \in BOOLEAN }

\* No caller of the validator.
ValidatorIdle ==
    /\ candidate = Null
    /\ verdicts = <<>>

ValidateConfig ==
    /\ Len(verdicts) < MaxValidatorCalls
    /\ \E matchesUndefined \in BOOLEAN :
         verdicts' = Append(verdicts,
            [call   |-> "validateConfig",
             config |-> candidate,
             result |-> Return(validateConfig(candidate, matchesUndefined))])
    /\ UNCHANGED <<candidate, namingVars, conflictVars, resolveVars, runVars, stack>>

ValidateAndNormalizeConfig ==
    /\ Len(verdicts) < MaxValidatorCalls
    /\ \E matchesUndefined \in BOOLEAN :
         verdicts' = Append(verdicts,
            [call   |-> "validateAndNormalizeConfig",
             config |-> candidate,
             result |-> validateAndNormalizeConfig(candidate, matchesUndefined)])
    /\ UNCHANGED <<candidate, namingVars, conflictVars, resolveVars, runVars, stack>>

ValidatorStep == ValidateConfig \/ ValidateAndNormalizeConfig

(***************************************************************************)
(* Specifications.                                                         *)
(***************************************************************************)
InitStacks ==
    {Null} \cup
    { [exists |-> TRUE, StackName |-> "my-app-stack", StackStatus |-> s,
       Outputs |-> templateOutputs(t)] : s \in StackStatuses, t \in AppTypes }

InitRuns(ids) ==
    /\ pc = [r \in ids |-> "start"]
    /\ promise = [r \in ids |-> Pending]
    /\ existingStack = [r \in ids |-> Null]
    /\ polled = [r \in ids |-> Null]
    /\ stackResult = [r \in ids |-> Null]
    /\ elapsed = [r \in ids |-> 0]
    /\ awsCalls = [r \in ids |-> {}]
    /\ submissions = [r \in ids |-> <<>>]
    /\ syncCalls = [r \in ids |-> <<>>]
    /\ phases = [r \in ids |-> <<>>]
    /\ template = [r \in ids |-> Null]

\* One deploy() against a stack that is absent or in any status.
Init ==
    /\ InitRuns({1})
    /\ NamingIdle
    /\ ConflictsIdle
    /\ ResolveIdle
    /\ ValidatorIdle
    /\ config \in [{1} -> Configs]
    /\ stack \in InitStacks

Next == (\E r \in Runs : RunStep(r)) \/ CfnStep

Spec == Init /\ [][Next]_vars

\* One deploy() of a backend config against a stack that is absent or was
\* deployed from the same template.  The run is scheduled whenever it can take
\* a step (each await of the source settles); the control plane need not move.
InitFair ==
    /\ InitRuns({1})
    /\ NamingIdle
    /\ ConflictsIdle
    /\ ResolveIdle
    /\ ValidatorIdle
    /\ \E c \in {cfg \in Configs : /\ ~stackName(cfg).threw
                                    /\ ~validateDeployment(cfg).threw
                                    /\ cfg.application.type = "backend"
                                    /\ ~Truthy(cfg.frontend)} :
         /\ config = [r \in {1} |-> c]
         /\ stack \in {s \in InitStacks :
                         s.exists => s.Outputs = templateOutputs(c.application.type)}

FairSpec == InitFair /\ [][Next]_vars /\ WF_vars(\E r \in Runs : RunStep(r))

\* The sleeps of the polling loop explored per run when two runs race.
MaxConcPolls == 1

\* Two deploy() calls for the same backend config, hence the same stack name,
\* against a stack that is absent or was deployed from the same template.
InitConc ==
    /\ InitRuns({1, 2})
    /\ NamingIdle
    /\ ConflictsIdle
    /\ ResolveIdle
    /\ ValidatorIdle
    /\ \E c \in {cfg \in Configs : /\ ~stackName(cfg).threw
                                    /\ ~validateDeployment(cfg).threw
                                    /\ cfg.application.type = "backend"
                                    /\ ~Truthy(cfg.frontend)} :
         /\ config = [r \in {1, 2} |-> c]
         /\ stack \in {s \in InitStacks :
                         s.exists => s.Outputs = templateOutputs(c.application.type)}

ConcStep(r) == RunStep(r) /\ elapsed'[r] <= MaxConcPolls * PollInterval

NextConc == (\E r \in Runs : ConcStep(r)) \/ CfnStep

SpecConc == InitConc /\ [][NextConc]_vars

\* The tags of the deployment section, as Object.entries lists them: none, a
\* key of the user's own, or the two keys resolveEnvironmentConfig puts into
\* every config it returns.
UserTags ==
    { <<>>,
      <<[Key |-> "Team", Value |-> "web"]>>,
      <<[Key |-> "Environment", Value |-> "production"],
        [Key |-> "Application", Value |-> "my-app"]>> }

\* An output that is neither WebsiteURL nor FunctionURL.
OtherOutput == [OutputKey |-> "LogGroupName", OutputValue |-> "/aws/lambda/my-app"]

\* Configs that pass validateDeployment: each section the type needs is
\* present, its source_dir set or empty, and the deployment section carries
\* user tags.
DetailConfigs ==
    { [application |-> [name |-> "my-app", type |-> t],
       aws         |-> [region |-> ""],
       frontend    |-> f,
       backend     |-> b,
       deployment  |-> [stack_name |-> "", tags |-> g]] :
         t \in AppTypes,
         f \in {Null, Section(""), Section("./dist")},
         b \in {Null, Section(""), Section("./src")},
         g \in UserTags }

\* One deploy() of such a config against a stack that is absent or was
\* deployed before, from this template or from one with a further output.
InitDetail ==
    /\ InitRuns({1})
    /\ NamingIdle
    /\ ConflictsIdle
    /\ ResolveIdle
    /\ ValidatorIdle
    /\ \E c \in {cfg \in DetailConfigs :
                    /\ ~validateDeployment(cfg).threw
                    /\ Truthy(cfg.frontend) <=>
                         cfg.application.type \in {"frontend", "fullstack"}
                    /\ Truthy(cfg.backend) <=>
                         cfg.application.type \in {"backend", "fullstack"}} :
         /\ config = [r \in {1} |-> c]
         /\ stack \in {Null} \cup
              { [exists |-> TRUE, StackName |-> stackNameOf(c),
                 StackStatus |-> "CREATE_COMPLETE", Outputs |-> o] :
                  o \in { templateOutputs(c.application.type),
                          <<OtherOutput>> \o templateOutputs(c.application.type),
                          templateOutputs("fullstack") \o <<OtherOutput>> } }

\* The sleeps of the polling loop explored when the submitted command, the
\* code sync and the result are what is looked at.
MaxDetailPolls == 2

DetailStep(r) == RunStep(r) /\ elapsed'[r] <= MaxDetailPolls * PollInterval

NextDetail == (\E r \in Runs : DetailStep(r)) \/ CfnStep

SpecDetail == InitDetail /\ [][NextDetail]_vars

\* A caller of the naming service with one request, no deploy() running.
InitNaming ==
    /\ InitRuns({})
    /\ config = <<>>
    /\ stack = Null
    /\ now = Epoch
    /\ request \in NamingRequests
    /\ namings = <<>>
    /\ ConflictsIdle
    /\ ResolveIdle
    /\ ValidatorIdle

SpecNaming == InitNaming /\ [][NamingStep]_vars

\* A caller of checkNamingConflicts with its names and existing names.
InitConflicts ==
    /\ InitRuns({})
    /\ config = <<>>
    /\ stack = Null
    /\ NamingIdle
    /\ conflictArgs \in [resourceNames     : ConflictResourceNames,
                         existingResources : ExistingResources]
    /\ conflictCalls = <<>>
    /\ ResolveIdle
    /\ ValidatorIdle

\* A caller of resolveEnvironmentConfig with its base config.
InitResolve ==
    /\ InitRuns({})
    /\ config = <<>>
    /\ stack = Null
    /\ NamingIdle
    /\ ConflictsIdle
    /\ baseConfig \in BaseConfigs
    /\ resolutions = <<>>
    /\ ValidatorIdle

\* A caller of the validator with a config object.
InitValidator ==
    /\ InitRuns({})
    /\ config = <<>>
    /\ stack = Null
    /\ NamingIdle
    /\ ConflictsIdle
    /\ ResolveIdle
    /\ candidate \in CandidateConfigs
    /\ verdicts = <<>>

SpecValidator == InitValidator /\ [][ValidatorStep]_vars

SpecResolve == InitResolve /\ [][ResolveStep]_vars

SpecConflicts == InitConflicts /\ [][ConflictStep]_vars

(***************************************************************************)
(* Properties.                                                             *)
(***************************************************************************)
Done(r) == pc[r] = "done"
Settled(r) == promise[r].state = "resolved"
Result(r) == promise[r].value
Succeeded(r) == Settled(r) /\ Result(r).success
Failed(r) == Settled(r) /\ ~Result(r).success
FailureMessage(r) == Result(r).errors[1].message
Entered(r, phase) == \E i \in 1..Len(phases[r]) : phases[r][i] = phase

\* A status that ends in _COMPLETE or in _FAILED.
TerminalStatus(s) == endsWith(s, "_COMPLETE") \/ endsWith(s, "_FAILED")

\* A status that ends in _COMPLETE and contains neither FAILED nor ROLLBACK.
SuccessStatus(s) ==
    endsWith(s, "_COMPLETE") /\ ~includes(s, "FAILED") /\ ~includes(s, "ROLLBACK")

\* C1: deploy() never rejects; once it has returned, its promise is resolved
\* to a result with a boolean success, and a failure result carries at least
\* one error, whatever the config and whatever the AWS calls did.
C1_DeployNeverThrows ==
    \A r \in Runs :
      /\ promise[r].state # "rejected"
      /\ Done(r) <=> Settled(r)
      /\ Settled(r) =>
           /\ Result(r).success \in BOOLEAN
           /\ ~Result(r).success =>
                /\ "errors" \in DOMAIN Result(r)
                /\ Len(Result(r).errors) >= 1

\* C2: the polling loop sleeps and probes again exactly when the probed
\* status is not terminal; it returns the probed stack only for a success
\* status; a failing terminal status fails the deployment with a message that
\* contains the status.
C2_PollVerdict ==
    \A r \in Runs :
      /\ pc[r] = "sleep" =>
           Truthy(polled[r]) /\ ~TerminalStatus(polled[r].StackStatus)
      /\ Truthy(polled[r]) =>
           LET status == polled[r].StackStatus IN
           /\ ~TerminalStatus(status) => pc[r] = "sleep"
           /\ SuccessStatus(status) =>
                /\ Entered(r, "code_sync")
                /\ stackResult[r] = polled[r]
           /\ TerminalStatus(status) /\ ~SuccessStatus(status) =>
                /\ Failed(r)
                /\ ~Entered(r, "code_sync")
                /\ includes(FailureMessage(r), status)
      /\ Entered(r, "polling") /\ Entered(r, "code_sync") =>
           Truthy(polled[r]) /\ SuccessStatus(polled[r].StackStatus)

\* A rollback-flavoured _COMPLETE status that failed the deployment.
C2_Witness ==
    \E r \in Runs :
      /\ Truthy(polled[r])
      /\ polled[r].StackStatus = "UPDATE_ROLLBACK_COMPLETE"
      /\ Failed(r)
      /\ FailureMessage(r) = "Stack operation failed with status: UPDATE_ROLLBACK_COMPLETE"

TimeoutMessage == "Stack operation timed out after 1800 seconds"

TimedOut(r) == Failed(r) /\ includes(FailureMessage(r), "timed out")

C3_TimeoutSafe ==
    \A r \in Runs :
      \* no probe is sent once the maximum wait has elapsed
      /\ pc[r] = "poll" => elapsed[r] < MaxWaitTime
      /\ pc[r] = "sleep" => elapsed[r] < MaxWaitTime + PollInterval
      \* a run that left the loop by the clock reports the timeout
      /\ TimedOut(r) =>
           /\ elapsed[r] >= MaxWaitTime
           /\ Result(r).metadata.duration >= MaxWaitTime
           /\ FailureMessage(r) = TimeoutMessage
           /\ ~includes(FailureMessage(r), "failed with status")
           /\ ~Truthy(polled[r])
      /\ Done(r) /\ Entered(r, "polling") /\ ~Entered(r, "code_sync")
           /\ ~Truthy(polled[r]) /\ elapsed[r] >= MaxWaitTime + PollInterval
           => TimedOut(r)

\* C3: polling never goes on past the maximum wait: no probe is sent once
\* 1800 s have elapsed, a run that ran out of time resolves to a failure whose
\* message is the timeout message (with the seconds of the maximum wait, and
\* not the status-failure message), and every deploy() eventually returns,
\* whether or not the stack ever reaches a terminal status.
C3_TimeoutTerminates ==
    /\ []C3_TimeoutSafe
    /\ <>(\A r \in Runs : Done(r))

\* A run that polled until the clock ran out.
C3_Witness ==
    \E r \in Runs :
      /\ Failed(r)
      /\ FailureMessage(r) = TimeoutMessage
      /\ elapsed[r] > MaxWaitTime
      /\ stack.exists /\ stack.StackStatus = "UPDATE_IN_PROGRESS"

\* The run's submission was an UpdateStack that raised the no-op error.
NoUpdatesRaised(r) ==
    /\ Len(submissions[r]) = 1
    /\ submissions[r][1].command.api = "UpdateStack"
    /\ ~submissions[r][1].accepted
    /\ includes(submissions[r][1].error.message, "No updates are to be performed")

\* C4 as stated: after the no-op error the polling loop is not entered and
\* deploy() returns success:true.
C4_Original ==
    \A r \in Runs :
      NoUpdatesRaised(r) =>
        /\ ~Entered(r, "polling")
        /\ Done(r) => Succeeded(r)

\* C4, amended: after the no-op error the error is not propagated and the
\* polling loop is not entered; the stack is probed once more and code sync
\* and output extraction run on what that probe returns; deploy() returns
\* success:true unless that probe raises, finds no stack, or a code-sync call
\* raises.
C4_NoOpShortCircuit ==
    \A r \in Runs :
      NoUpdatesRaised(r) =>
        /\ ~Entered(r, "polling")
        /\ pc[r] \notin {"poll", "sleep"}
        /\ Failed(r) =>
             /\ ~includes(FailureMessage(r), "No updates are to be performed")
             /\ \/ /\ ~Entered(r, "code_sync")
                   /\ FailureMessage(r) = ServiceError.message
                \/ /\ Entered(r, "code_sync")
                   /\ ~Truthy(stackResult[r])
                   /\ includes(FailureMessage(r), "Cannot read properties of null")
                \/ /\ Truthy(stackResult[r])
                   /\ Len(syncCalls[r]) >= 1
                   /\ includes(FailureMessage(r), "Failed to")
        /\ Succeeded(r) =>
             /\ Truthy(stackResult[r])
             /\ Entered(r, "output_extraction")

\* A no-op update that ended in success:true.
C4_Witness ==
    \E r \in Runs : NoUpdatesRaised(r) /\ Succeeded(r) /\ Len(syncCalls[r]) = 2

C5_Step(r) ==
    \* at most one submission per deploy, never repeated
    /\ Len(submissions'[r]) <= 1
    /\ submissions[r] # <<>> => submissions'[r] = submissions[r]
    \* the probe reports the stack, or null when there is none ...
    /\ pc[r] = "probe" /\ pc'[r] = "submit" =>
         /\ existingStack'[r] = stack
         /\ submissions'[r] = <<>>
    \* ... and any other describe failure ends the deploy with nothing submitted
    /\ pc[r] = "probe" /\ pc'[r] # "submit" /\ pc'[r] # "probe" =>
         /\ pc'[r] = "done"
         /\ promise'[r].state = "resolved"
         /\ ~promise'[r].value.success
         /\ promise'[r].value.errors[1].message = ServiceError.message
         /\ submissions'[r] = <<>>
    \* the probe's result selects the command
    /\ pc[r] = "submit" /\ pc'[r] # "submit" =>
         /\ Len(submissions'[r]) = 1
         /\ submissions'[r][1].command.api =
              (IF existingStack[r].exists THEN "UpdateStack" ELSE "CreateStack")
         /\ submissions'[r][1].accepted => pc'[r] = "poll"
         /\ ~submissions'[r][1].accepted => pc'[r] \in {"done", "noop"}

\* C5: the existence probe selects CreateStack (no stack) or UpdateStack (a
\* stack); another describe failure is propagated with nothing submitted; a
\* deploy issues at most one CreateStack-or-UpdateStack call and never
\* repeats a failed one.
C5_ProbeSelectsPath == [][\A r \in Runs : C5_Step(r)]_vars

\* A re-run that updated the existing stack and succeeded.
C5_Witness ==
    \E r \in Runs :
      /\ Succeeded(r)
      /\ Len(submissions[r]) = 1
      /\ submissions[r][1].command.api = "UpdateStack"
      /\ submissions[r][1].accepted

NeedsFrontend(cfg) == cfg.application.type \in {"frontend", "fullstack"}
NeedsBackend(cfg) == cfg.application.type \in {"backend", "fullstack"}

\* What is wrong with a config, by the keyword that names it in a message.
ConfigProblems(cfg) ==
    {"name" : x \in {1} \cap (IF cfg.application.name = "" THEN {1} ELSE {})}
    \cup {"type" : x \in {1} \cap (IF cfg.application.type \notin AppTypes THEN {1} ELSE {})}
    \cup {"Frontend configuration" :
            x \in {1} \cap (IF NeedsFrontend(cfg) /\ ~cfg.frontend.exists THEN {1} ELSE {})}
    \cup {"Backend configuration" :
            x \in {1} \cap (IF NeedsBackend(cfg) /\ ~cfg.backend.exists THEN {1} ELSE {})}

\* C6: a deploy of a config with a validation problem makes no AWS call at
\* all, and once validateDeployment has run on it the result is success:false
\* with a message that names a missing or invalid field.
C6_ValidationFailsFast ==
    \A r \in Runs :
      ConfigProblems(config[r]) # {} =>
        /\ awsCalls[r] = {}
        /\ submissions[r] = <<>>
        /\ syncCalls[r] = <<>>
        /\ pc[r] \in {"start", "done"}
        /\ Entered(r, "validation") =>
             /\ Failed(r)
             /\ \E k \in ConfigProblems(config[r]) : includes(FailureMessage(r), k)

\* A fullstack config without its backend section, rejected.
C6_Witness ==
    \E r \in Runs :
      /\ config[r].application.type = "fullstack"
      /\ config[r].application.name # ""
      /\ config[r].frontend.exists /\ ~config[r].backend.exists
      /\ Failed(r)
      /\ includes(FailureMessage(r), "Backend configuration is required")

\* Validation let the config through: template generation was entered.
Accepted(r) == Entered(r, "template")

\* C7 as stated: accepted exactly when the name is present, the type is
\* known, and each section is present if and only if the type needs it.
C7_Original ==
    \A r \in Runs :
      Entered(r, "validation") =>
        (Accepted(r) <=>
           /\ config[r].application.name # ""
           /\ config[r].application.type \in AppTypes
           /\ config[r].frontend.exists <=> NeedsFrontend(config[r])
           /\ config[r].backend.exists <=> NeedsBackend(config[r]))

\* C7, amended: accepted exactly when the name is present, the type is known,
\* and each section the type needs is present; a section the type does not
\* need is not rejected.
C7_ValidationAccepts ==
    \A r \in Runs :
      Entered(r, "validation") =>
        (Accepted(r) <=>
           /\ config[r].application.name # ""
           /\ config[r].application.type \in AppTypes
           /\ NeedsFrontend(config[r]) => config[r].frontend.exists
           /\ NeedsBackend(config[r]) => config[r].backend.exists)

\* A backend config that carries a frontend section, accepted.
C7_Witness ==
    \E r \in Runs :
      /\ config[r].application.type = "backend"
      /\ config[r].frontend.exists
      /\ Accepted(r)

PollPath ==
    <<"validation", "template", "submission", "polling", "code_sync", "output_extraction">>
NoOpPath ==
    <<"validation", "template", "submission", "noop", "code_sync", "output_extraction">>

IsPrefix(p, q) == Len(p) <= Len(q) /\ SubSeq(q, 1, Len(p)) = p

\* The run's submission was refused with something other than the no-op error.
SubmissionRejected(r) ==
    /\ Len(submissions[r]) = 1
    /\ ~submissions[r][1].accepted
    /\ ~includes(submissions[r][1].error.message, "No updates are to be performed")

\* C8: a deploy that failed in one of its phases yields success:false
\* with empty resources and endpoints and exactly one DEPLOYMENT_FAILED error
\* carrying the failure's message and the static hint (a code-sync failure
\* after a successful stack status included); a deploy that got through all
\* of them yields
\* success:true with no errors; both record a duration.
C8_ResultAssembly ==
    \A r \in Runs :
      Done(r) /\ Entered(r, "validation") =>
        /\ Settled(r)
        /\ "duration" \in DOMAIN Result(r).metadata
        /\ Result(r).metadata.duration = elapsed[r]
        /\ Result(r).success <=>
             (phases[r] \in {PollPath, NoOpPath} /\ Truthy(stackResult[r]))
        /\ Result(r).success => "errors" \notin DOMAIN Result(r)
        /\ ~Result(r).success =>
             /\ Result(r).resources = <<>>
             /\ Result(r).endpoints = <<>>
             /\ Len(Result(r).errors) = 1
             /\ Result(r).errors[1].code = "DEPLOYMENT_FAILED"
             /\ Result(r).errors[1].remediation =
                  "Check AWS CloudFormation console for detailed error information"
             /\ ~Entered(r, "template") =>
                  \E k \in ConfigProblems(config[r]) : includes(FailureMessage(r), k)
             /\ SubmissionRejected(r) =>
                  FailureMessage(r) = submissions[r][1].error.message
             /\ Entered(r, "polling") /\ ~Entered(r, "code_sync") =>
                  \/ FailureMessage(r) = ServiceError.message
                  \/ FailureMessage(r) = TimeoutMessage
                  \/ FailureMessage(r) = "Stack my-app-stack not found"
                  \/ /\ Truthy(polled[r])
                     /\ FailureMessage(r) =
                          "Stack operation failed with status: " \o polled[r].StackStatus
             /\ Entered(r, "code_sync") /\ Truthy(stackResult[r]) =>
                  /\ Len(syncCalls[r]) >= 1
                  /\ includes(FailureMessage(r), "Failed to")
                  /\ includes(FailureMessage(r), syncCalls[r][Len(syncCalls[r])].target)

\* The stack reached CREATE_COMPLETE, the Lambda code update raised, and the
\* result is the generic failure.
C8_Witness ==
    \E r \in Runs :
      /\ Failed(r)
      /\ Truthy(polled[r]) /\ polled[r].StackStatus = "CREATE_COMPLETE"
      /\ Len(syncCalls[r]) = 2
      /\ includes(FailureMessage(r), "Failed to update function code")
      /\ Result(r).resources = <<>> /\ Result(r).endpoints = <<>>

\* C9: the phases are entered in the order validation, template, submission,
\* polling (or the recognized no-op), code sync, output extraction, each only
\* after the one before it succeeded; code sync is entered only after a
\* successful terminal status or the no-op.
C9_PhaseOrder ==
    \A r \in Runs :
      /\ IsPrefix(phases[r], PollPath) \/ IsPrefix(phases[r], NoOpPath)
      /\ Entered(r, "template") => ConfigProblems(config[r]) = {}
      /\ Entered(r, "submission") => template[r] # Null
      /\ awsCalls[r] # {} => Entered(r, "submission")
      /\ submissions[r] # <<>> => "DescribeStacks" \in awsCalls[r]
      /\ Entered(r, "polling") =>
           Len(submissions[r]) = 1 /\ submissions[r][1].accepted
      /\ pc[r] \in {"poll", "sleep"} => Entered(r, "polling")
      /\ Entered(r, "noop") => NoUpdatesRaised(r)
      /\ Entered(r, "code_sync") =>
           \/ /\ Entered(r, "polling")
              /\ Truthy(stackResult[r])
              /\ SuccessStatus(stackResult[r].StackStatus)
           \/ NoUpdatesRaised(r)
      /\ syncCalls[r] # <<>> => Entered(r, "code_sync")
      /\ Entered(r, "output_extraction") => pc[r] \in {"verify", "done"}
      /\ Succeeded(r) => phases[r] \in {PollPath, NoOpPath}

\* A fullstack deploy that went through all six phases, polling included.
C9_Witness ==
    \E r \in Runs :
      /\ Succeeded(r)
      /\ phases[r] = PollPath
      /\ Len(syncCalls[r]) = 2
      /\ syncCalls[r][1].call = "deployFrontendAssets"
      /\ syncCalls[r][2].call = "updateFunctionCode"

\* C10: when two runs race on one stack name, a run whose submission the
\* control plane refused (stack already exists, stack not updatable in its
\* state, stack gone, or a service error) returns success:false with that
\* error; a run returns success:true only if its own submission was accepted
\* or was the no-op.
C10_RejectedNeverSucceeds ==
    \A r \in Runs :
      /\ SubmissionRejected(r) =>
           /\ Failed(r)
           /\ FailureMessage(r) = submissions[r][1].error.message
           /\ ~Entered(r, "polling") /\ ~Entered(r, "code_sync")
      /\ Succeeded(r) =>
           /\ Len(submissions[r]) = 1
           /\ submissions[r][1].accepted \/ NoUpdatesRaised(r)

\* Both runs saw no stack and both sent CreateStack: one was accepted, the
\* other got "already exists" and failed.
C10_Witness ==
    \E a \in Runs, b \in Runs :
      /\ a # b
      /\ Len(submissions[a]) = 1 /\ Len(submissions[b]) = 1
      /\ submissions[a][1].command.api = "CreateStack"
      /\ submissions[b][1].command.api = "CreateStack"
      /\ submissions[a][1].accepted
      /\ ~submissions[b][1].accepted
      /\ includes(submissions[b][1].error.message, "already exists")
      /\ Failed(b)
      /\ Succeeded(a)

(***************************************************************************)
(* Code sync, submitted command, endpoints and resources.                  *)
(***************************************************************************)
\* The positions in syncCalls[r] of the calls of one resource manager method.
CallsOf(r, method) == {i \in 1..Len(syncCalls[r]) : syncCalls[r][i].call = method}

\* Stack names a stack with given outputs can have.
StackNameSamples == {"my-app-stack", "Shop-Stack"}

\* C11: a deploy that got through code sync uploaded the frontend assets
\* exactly when the type is frontend or fullstack and updated the Lambda code
\* exactly when the type is backend or fullstack, each at most once and the
\* upload first, with the configured source directory and with a bucket and
\* a function name that are derived from the stack's outputs: a stack of
\* another name with the same outputs gives the same two names.
C11_CodeSyncFromOutputs ==
    \A r \in Runs :
      /\ Cardinality(CallsOf(r, "deployFrontendAssets")) <= 1
      /\ Cardinality(CallsOf(r, "updateFunctionCode")) <= 1
      /\ \A i \in CallsOf(r, "deployFrontendAssets"),
            j \in CallsOf(r, "updateFunctionCode") : i < j
      /\ \A i \in CallsOf(r, "deployFrontendAssets") :
            syncCalls[r][i].sourceDir = config[r].frontend.source_dir
      /\ \A i \in CallsOf(r, "updateFunctionCode") :
            syncCalls[r][i].sourceDir = config[r].backend.source_dir
      /\ Entered(r, "output_extraction") =>
            /\ CallsOf(r, "deployFrontendAssets") # {} <=> NeedsFrontend(config[r])
            /\ CallsOf(r, "updateFunctionCode") # {} <=> NeedsBackend(config[r])
      /\ Truthy(stackResult[r]) =>
            \A n \in StackNameSamples :
              LET renamed == [stackResult[r] EXCEPT !.StackName = n]
              IN  /\ extractBucketName(renamed) = extractBucketName(stackResult[r])
                  /\ extractFunctionName(renamed) = extractFunctionName(stackResult[r])

\* The keys of a tag list, as a set.
TagKeys(tags) == {tags[i].Key : i \in 1..Len(tags)}

\* C12: CreateStack carries the generated template, the single parameter
\* ApplicationName, both capabilities, and tags made of Application, ManagedBy
\* and the user tags in which no key occurs twice; UpdateStack carries the
\* same template, parameter and capabilities and no tags.
C12_SubmitParameters ==
    \A r \in Runs :
      \A i \in 1..Len(submissions[r]) :
        LET cmd == submissions[r][i].command
            cfg == config[r]
        IN  /\ cmd.api \in {"CreateStack", "UpdateStack"}
            /\ cmd.StackName = stackNameOf(cfg)
            /\ cmd.TemplateBody = generateTemplate(cfg).value
            /\ cmd.Parameters =
                 <<[ParameterKey |-> "ApplicationName",
                    ParameterValue |-> cfg.application.name]>>
            /\ cmd.Capabilities = <<"CAPABILITY_IAM", "CAPABILITY_NAMED_IAM">>
            /\ cmd.api = "UpdateStack" => "Tags" \notin DOMAIN cmd
            /\ cmd.api = "CreateStack" =>
                 /\ TagKeys(cmd.Tags) =
                      {"Application", "ManagedBy"} \cup TagKeys(cfg.deployment.tags)
                 /\ \A j, k \in 1..Len(cmd.Tags) :
                      cmd.Tags[j].Key = cmd.Tags[k].Key => j = k

\* The outputs with one of the two well-known keys, in output order.
KnownOutput(o) == o.OutputKey \in {"WebsiteURL", "FunctionURL"}
KnownOutputs(outputs) == SelectSeq(outputs, KnownOutput)

\* C13: on success the endpoints are, in output order, one record per
\* WebsiteURL output (type website) or FunctionURL output (type function_url)
\* with that output's value as url, outputs of other keys giving none; the
\* resources are one S3 bucket record per WebsiteURL output and one Lambda
\* function record per FunctionURL output, so both lists have one length.
C13_EndpointsFromOutputs ==
    \A r \in Runs :
      /\ Settled(r) => Len(Result(r).resources) = Len(Result(r).endpoints)
      /\ Succeeded(r) =>
          LET known == KnownOutputs(stackResult[r].Outputs)
              res   == Result(r)
          IN  /\ Len(res.endpoints) = Len(known)
              /\ Len(res.resources) = Len(res.endpoints)
              /\ \A i \in 1..Len(known) :
                   /\ res.endpoints[i].url = known[i].OutputValue
                   /\ known[i].OutputKey = "WebsiteURL" =>
                        /\ res.endpoints[i].type = "website"
                        /\ res.resources[i].type = "S3::Bucket"
                   /\ known[i].OutputKey = "FunctionURL" =>
                        /\ res.endpoints[i].type = "function_url"
                        /\ res.resources[i].type = "Lambda::Function"

\* A successful deploy whose stack has a third output besides WebsiteURL and
\* FunctionURL: two endpoints and two resources.
C13_Witness ==
    \E r \in Runs :
      /\ Succeeded(r)
      /\ Len(stackResult[r].Outputs) = 3
      /\ Len(KnownOutputs(stackResult[r].Outputs)) = 2
      /\ Len(Result(r).endpoints) = 2
      /\ Len(Result(r).resources) = 2

(***************************************************************************)
(* Resource names.                                                         *)
(***************************************************************************)
Calls == 1..Len(namings)
Names(i) == namings[i].names
Has(i, field) == field \in DOMAIN Names(i)

\* C14: every name a call returned respects the maximum of its resource
\* class: stack 128, S3 bucket 63, Lambda function 64, IAM role 64
\* characters, whatever the application name, environment, prefix, suffix
\* and stack_name override.
C14_NameLengths ==
    \A i \in Calls :
      /\ Len(Names(i).stackName) <= 128
      /\ Has(i, "s3BucketName") => Len(Names(i).s3BucketName) <= 63
      /\ Has(i, "lambdaFunctionName") => Len(Names(i).lambdaFunctionName) <= 64
      /\ Has(i, "lambdaExecutionRoleName") =>
           Len(Names(i).lambdaExecutionRoleName) <= 64

\* A fullstack call with the 120-character name and an environment: all four
\* names had to be cut and sit exactly at their maximum.
C14_Witness ==
    \E i \in Calls :
      /\ namings[i].config.application.name = RawName
      /\ namings[i].environment = "production"
      /\ namings[i].config.deployment.stack_name = ""
      /\ Len(Names(i).stackName) = 128
      /\ Has(i, "s3BucketName") /\ Len(Names(i).s3BucketName) = 63
      /\ Has(i, "lambdaFunctionName") /\ Len(Names(i).lambdaFunctionName) = 64
      /\ Len(Names(i).lambdaExecutionRoleName) = 64

\* The names that pass through validateAndTruncate, with their maxima.
CutFields ==
    {"stackName", "s3BucketName", "lambdaFunctionName", "lambdaExecutionRoleName"}

MaxOf(field) ==
    CASE field = "stackName" -> 128
      [] field = "s3BucketName" -> 63
      [] OTHER -> 64

\* The readings of the clock so far.
RECURSIVE ReadingsFrom(_)
ReadingsFrom(digits) ==
    IF digits = now THEN {now} ELSE {digits} \cup ReadingsFrom(tick(digits))

\* The name of a call's field before it is cut: the override, or the
\* sanitized join of the parts; the bucket's parts have the clock's reading.
PreTruncation(i, field, reading) ==
    LET cfg == namings[i].config
        p   == tagValue(cfg, "Prefix")
        s   == tagValue(cfg, "Suffix")
        e   == namings[i].environment
        n   == cfg.application.name
        a   == IF n = "" THEN "app" ELSE n
    IN  CASE field = "stackName" ->
               IF cfg.deployment.stack_name # "" THEN cfg.deployment.stack_name
               ELSE sanitizeName(joinParts(<<p, n, e, s>>))
          [] field = "s3BucketName" ->
               toLowerCase(sanitizeName(
                   joinParts(<<p, a, e, "frontend", timestampOf(reading), s>>)))
          [] field = "lambdaFunctionName" ->
               sanitizeName(joinParts(<<p, a, e, "lambda", s>>))
          [] field = "lambdaExecutionRoleName" ->
               sanitizeName(joinParts(<<p, a, e, "lambda-role", s>>))

\* C15: a name longer than its maximum comes out as its first max - 7
\* characters, then '-', then the 6-character base-36 hash of the whole name
\* (h = 31 * h + charCode in 32 bits, absolute value, base 36): it ends in
\* '-' followed by exactly 6 characters of [a-z0-9]. The bucket's name
\* before the cut is the one of some reading of the clock.
C15_TruncationFormat ==
    \A i \in Calls :
      \A f \in CutFields \cap DOMAIN Names(i) :
        \E reading \in ReadingsFrom(Epoch) :
          LET pre  == PreTruncation(i, f, reading)
              max  == MaxOf(f)
              out  == Names(i)[f]
              tail == SubSeq(out, Len(out) - 5, Len(out))
          IN  Len(pre) > max =>
              /\ Len(out) = max
              /\ SubSeq(out, 1, max - 7) = SubSeq(pre, 1, max - 7)
              /\ SubSeq(out, max - 6, max - 6) = "-"
              /\ tail = generateShortHash(pre)
              /\ \A k \in 1..6 : SubSeq(tail, k, k) \in CharsOf(Base36Digits)

\* C16: every name a call returned, sanitized and possibly cut, has only
\* characters of [A-Za-z0-9-], starts with a letter and has no two
\* consecutive '-'.
C16_SanitizedNames ==
    \A i \in Calls :
      \A f \in CutFields \cap DOMAIN Names(i) :
        LET out == Names(i)[f]
        IN  /\ \A k \in 1..Len(out) : SubSeq(out, k, k) \in NameChars
            /\ SubSeq(out, 1, 1) \in LetterChars
            /\ ~includes(out, "--")

LambdaFields == {"lambdaFunctionName", "lambdaExecutionRoleName", "logGroupName"}

TypeOf(i) == namings[i].config.application.type

\* C17: the names a call returns are gated by the application type: a
\* frontend has the bucket name and none of the three Lambda names, a backend
\* the three Lambda names and no bucket name, a fullstack all four; stackName
\* is always there and apiGatewayName never.
C17_Gating ==
    \A i \in Calls :
      /\ Has(i, "stackName")
      /\ ~Has(i, "apiGatewayName")
      /\ TypeOf(i) = "frontend" =>
            Has(i, "s3BucketName") /\ \A f \in LambdaFields : ~Has(i, f)
      /\ TypeOf(i) = "backend" =>
            ~Has(i, "s3BucketName") /\ \A f \in LambdaFields : Has(i, f)
      /\ TypeOf(i) = "fullstack" =>
            Has(i, "s3BucketName") /\ \A f \in LambdaFields : Has(i, f)

\* A frontend has been named by one service and again by the other.
C17_Witness ==
    \E i, j \in Calls :
      /\ namings[i].service # namings[j].service
      /\ TypeOf(i) = "frontend" /\ TypeOf(j) = "frontend"
      /\ Has(i, "s3BucketName") /\ ~Has(j, "lambdaFunctionName")

\* The reference name: the non-empty parts joined with '-', sanitized, cut.
Reference(parts, max) ==
    validateAndTruncate(sanitizeName(joinParts(parts)), max, "reference")

PrefixOf(i) == tagValue(namings[i].config, "Prefix")
SuffixOf(i) == tagValue(namings[i].config, "Suffix")
NameOf(i) == namings[i].config.application.name
OverrideOf(i) == namings[i].config.deployment.stack_name

\* The names of the spec's example, and of an empty application name.
ExampleNames(cfg, e, names) ==
    /\ (/\ cfg.application.name = "my-app" /\ cfg.application.type = "backend"
        /\ e = "production"
        /\ cfg.deployment.tags = <<>> /\ cfg.deployment.stack_name = "")
       => names = [stackName               |-> "my-app-production",
                   lambdaFunctionName      |-> "my-app-production-lambda",
                   lambdaExecutionRoleName |-> "my-app-production-lambda-role",
                   logGroupName            |-> "/aws/lambda/my-app-production-lambda"]
    /\ (/\ cfg.application.name = "" /\ e = ""
        /\ cfg.deployment.tags = <<>> /\ cfg.deployment.stack_name = "")
       => names.stackName = "app"

\* The names are the reference over the parts, app standing for the
\* application name in the function and role names.
NamesAsReference(cfg, e, names, app) ==
    LET p == tagValue(cfg, "Prefix")
        s == tagValue(cfg, "Suffix")
    IN  /\ "lambdaFunctionName" \in DOMAIN names =>
              /\ names.lambdaFunctionName =
                     Reference(<<p, app, e, "lambda", s>>, 64)
              /\ names.lambdaExecutionRoleName =
                     Reference(<<p, app, e, "lambda-role", s>>, 64)
              /\ names.logGroupName = "/aws/lambda/" \o names.lambdaFunctionName
        /\ ExampleNames(cfg, e, names)

\* Every (config, environment) that was named, with the names returned.
Named == {<<namings[i].config, namings[i].environment, Names(i)>> : i \in Calls}

\* C18 as stated: every generated name is the reference over the parts
\* [prefix, applicationName, environment, discriminator, suffix], with no
\* discriminator for the stack, 'lambda' for the function and 'lambda-role'
\* for the role; logGroupName is '/aws/lambda/' and the function name.
C18_Original ==
    \A c \in Named :
      LET cfg == c[1]
          n   == cfg.application.name
      IN  /\ c[3].stackName =
                Reference(<<tagValue(cfg, "Prefix"), n, c[2],
                            tagValue(cfg, "Suffix")>>, 128)
          /\ NamesAsReference(cfg, c[2], c[3], n)

\* C18, amended: the stack name is the reference unless the config sets
\* deployment.stack_name, and then it is that name, cut but not sanitized;
\* the function and role names are the reference over parts in which an
\* empty applicationName is replaced by 'app'; logGroupName is
\* '/aws/lambda/' and the function name.
C18_ReferenceNames ==
    \A c \in Named :
      LET cfg == c[1]
          n   == cfg.application.name
      IN  /\ c[3].stackName =
                IF cfg.deployment.stack_name # ""
                THEN validateAndTruncate(cfg.deployment.stack_name, 128, "reference")
                ELSE Reference(<<tagValue(cfg, "Prefix"), n, c[2],
                                 tagValue(cfg, "Suffix")>>, 128)
          /\ NamesAsReference(cfg, c[2], c[3], IF n = "" THEN "app" ELSE n)

\* A backend without an application name, named for production.
C18_Witness ==
    \E i \in Calls :
      /\ NameOf(i) = "" /\ TypeOf(i) = "backend"
      /\ namings[i].environment = "production" /\ OverrideOf(i) = ""
      /\ PrefixOf(i) = ""
      /\ Names(i).stackName = "production"
      /\ Names(i).lambdaFunctionName = "app-production-lambda"
      /\ Names(i).lambdaExecutionRoleName = "app-production-lambda-role"

StableFields == {"stackName"} \cup LambdaFields

\* The two calls were made for the same (applicationName, type, environment,
\* prefix, suffix).
SameNaming(i, j) ==
    /\ NameOf(i) = NameOf(j)
    /\ TypeOf(i) = TypeOf(j)
    /\ namings[i].environment = namings[j].environment
    /\ PrefixOf(i) = PrefixOf(j)
    /\ SuffixOf(i) = SuffixOf(j)

SameStableNames(i, j) ==
    \A f \in StableFields :
      /\ Has(i, f) <=> Has(j, f)
      /\ Has(i, f) => Names(i)[f] = Names(j)[f]

\* C19 as stated: two calls for the same (applicationName, type,
\* environment, prefix, suffix), on any instances and at any times, return
\* the same stackName, lambdaFunctionName, lambdaExecutionRoleName and
\* logGroupName.
C19_Original ==
    \A i, j \in Calls : SameNaming(i, j) => SameStableNames(i, j)

\* C19, amended: two calls for the same (applicationName, type, environment,
\* prefix, suffix) and the same deployment.stack_name return the same
\* stackName, lambdaFunctionName, lambdaExecutionRoleName and logGroupName;
\* the three Lambda names are the same whatever the stack_name.
C19_Determinism ==
    \A i, j \in Calls :
      SameNaming(i, j) =>
        /\ OverrideOf(i) = OverrideOf(j) => SameStableNames(i, j)
        /\ \A f \in LambdaFields :
              /\ Has(i, f) <=> Has(j, f)
              /\ Has(i, f) => Names(i)[f] = Names(j)[f]

\* Two instances have named the same fullstack configuration a millisecond
\* apart: the bucket names differ, the other names do not.
C19_Witness ==
    \E i, j \in Calls :
      /\ SameNaming(i, j) /\ OverrideOf(i) = OverrideOf(j)
      /\ namings[i].service # namings[j].service
      /\ TypeOf(i) = "fullstack"
      /\ Names(i).s3BucketName # Names(j).s3BucketName
      /\ Names(i).lambdaFunctionName = Names(j).lambdaFunctionName

\* name is head followed by one or more characters of [a-z0-9].
HasTokenAfter(name, head) ==
    /\ Len(name) > Len(head)
    /\ SubSeq(name, 1, Len(head)) = head
    /\ \A k \in (Len(head) + 1)..Len(name) :
          SubSeq(name, k, k) \in CharsOf(Base36Digits)

\* C20: two calls for the same frontend configuration both return a bucket
\* name, of the form <app>-frontend-<token> when the configuration has no
\* environment, prefix or suffix, and the two bucket names differ.
C20_DistinctBucketNames ==
    \A i, j \in Calls :
      (/\ i < j
       /\ namings[i].config = namings[j].config
       /\ namings[i].environment = namings[j].environment
       /\ TypeOf(i) = "frontend")
      => /\ Has(i, "s3BucketName") /\ Has(j, "s3BucketName")
         /\ (namings[i].environment = "" /\ PrefixOf(i) = "" /\ SuffixOf(i) = "")
              => \A c \in {i, j} :
                   HasTokenAfter(Names(c).s3BucketName,
                       toLowerCase(sanitizeName(
                           IF NameOf(c) = "" THEN "app" ELSE NameOf(c)))
                       \o "-frontend-")
         /\ Names(i).s3BucketName # Names(j).s3BucketName

(***************************************************************************)
(* Naming conflicts.                                                       *)
(***************************************************************************)
\* The fields of a call's names that are populated and whose lower-cased
\* value is the lower-cased form of an existing name.
Colliding(c) ==
    {f \in DOMAIN c.resourceNames :
        /\ c.resourceNames[f] # ""
        /\ \E k \in 1..Len(c.existingResources) :
              toLowerCase(c.resourceNames[f]) = toLowerCase(c.existingResources[k])}

ConflictEntries(c) ==
    /\ Len(c.conflicts) = Cardinality(Colliding(c))
    /\ {c.conflicts[k] : k \in 1..Len(c.conflicts)} =
          {f \o ": " \o c.resourceNames[f] : f \in Colliding(c)}
    /\ (/\ c.resourceNames.stackName = "My-App-Stack"
        /\ \E k \in 1..Len(c.existingResources) :
              c.existingResources[k] = "my-app-stack")
       => \E k \in 1..Len(c.conflicts) : c.conflicts[k] = "stackName: My-App-Stack"

\* C21: checkNamingConflicts returns exactly one entry "<field>: <name>" for
\* each populated field whose lower-cased value is the lower-cased form of
\* an existing name, and nothing else ('My-App-Stack' conflicts with
\* 'my-app-stack'); the call changes neither the names nor the existing names.
C21_Conflicts ==
    /\ [](\A k \in 1..Len(conflictCalls) : ConflictEntries(conflictCalls[k]))
    /\ [][conflictCalls' # conflictCalls =>
             /\ conflictArgs' = conflictArgs
             /\ conflictCalls'[Len(conflictCalls')].resourceNames =
                    conflictArgs.resourceNames
             /\ conflictCalls'[Len(conflictCalls')].existingResources =
                    conflictArgs.existingResources]_vars

\* 'My-App-Stack' was checked against 'my-app-stack' and another name, with
\* the bucket name left out and the function name not among the existing.
C21_Witness ==
    \E k \in 1..Len(conflictCalls) :
      LET c == conflictCalls[k]
      IN  /\ c.resourceNames.stackName = "My-App-Stack"
          /\ "s3BucketName" \notin DOMAIN c.resourceNames
          /\ c.existingResources = <<"other-stack", "my-app-stack">>
          /\ c.conflicts = <<"stackName: My-App-Stack",
                             "lambdaFunctionName: My-App-Stack">>
          /\ conflictArgs.existingResources = c.existingResources


(***************************************************************************)
(* Environment resolution.                                                 *)
(***************************************************************************)
\* The tags of a config's deployment section, none when it has no tags.
TagsOf(cfg) ==
    LET tags == Get(cfg["deployment"].value, "tags")
    IN  IF tags = Undefined THEN EmptyObject ELSE tags.value

\* The tags the caller supplied to call r: those of the overrides over those
\* of the base config.
OverrideTags(r) ==
    IF "deployment" \in DOMAIN r.environmentOverrides
    THEN TagsOf(r.environmentOverrides)
    ELSE EmptyObject

CallerTags(r) ==
    LET base == TagsOf(r.config)
        over == OverrideTags(r)
    IN  [key \in DOMAIN base \cup DOMAIN over |->
            IF key \in DOMAIN over THEN over[key] ELSE base[key]]

DerivedKeys == {"Environment", "Application"}

\* The derived tags of call r's result are the environment argument and the
\* resolved application name.
DerivedTagsWin(r) ==
    LET tags == TagsOf(r.returned)
    IN  /\ Get(tags, "Environment") = Str(r.environment)
        /\ Get(tags, "Application") = r.returned["application"].value["name"]

\* The caller's tags of other keys are in call r's result as supplied.
OtherTagsKept(r) ==
    LET tags == TagsOf(r.returned)
    IN  \A key \in DOMAIN CallerTags(r) \ DerivedKeys :
            Get(tags, key) = CallerTags(r)[key]

\* C22: in every result of resolveEnvironmentConfig the Environment tag is
\* the environment argument and the Application tag is the resolved
\* application name, also when the base config or the overrides carry a tag
\* of that key, and the caller's tags of every other key are unchanged.
C22_DerivedTagsWin ==
    \A i \in DOMAIN resolutions :
        DerivedTagsWin(resolutions[i]) /\ OtherTagsKept(resolutions[i])

\* What does hold: tags of other keys are kept, and the derived tags have the
\* derived values when the caller supplied no tag of that key.
C22_Holds ==
    \A i \in DOMAIN resolutions :
        LET r == resolutions[i]
        IN  /\ OtherTagsKept(r)
            /\ DOMAIN CallerTags(r) \cap DerivedKeys = {} => DerivedTagsWin(r)
            /\ \A key \in DOMAIN CallerTags(r) \cap DerivedKeys :
                   Get(TagsOf(r.returned), key) = CallerTags(r)[key]


\* deployment.stack_name of a config object, Undefined when it has none.
StackNameOf(cfg) == Get(cfg["deployment"].value, "stack_name")

\* The stack name call r finds after merging: that of the overrides if they
\* have one, else that of the base config.
MergedStackName(r) ==
    IF /\ "deployment" \in DOMAIN r.environmentOverrides
       /\ StackNameOf(r.environmentOverrides) # Undefined
    THEN StackNameOf(r.environmentOverrides)
    ELSE StackNameOf(r.config)

\* resolveEnvironmentConfig keeps a stack name that is set after merging and
\* derives <application name>-<environment> otherwise.
StackNameResolved(r) ==
    IF MergedStackName(r) # Undefined
    THEN StackNameOf(r.returned) = MergedStackName(r)
    ELSE StackNameOf(r.returned) =
             Str(r.returned["application"].value["name"].value
                 \o "-" \o r.environment)

\* The claim as stated: every configured stack name is returned as it is.
C23_Original ==
    /\ \A i \in DOMAIN resolutions : StackNameResolved(resolutions[i])
    /\ \A i \in DOMAIN namings :
          namings[i].config.deployment.stack_name # ""
             => namings[i].names.stackName
                   = namings[i].config.deployment.stack_name

\* C23: resolveEnvironmentConfig leaves a stack name that is set after
\* merging unchanged and derives one from the application name and the
\* environment only when none is set; generateResourceNames returns a
\* configured stack name of at most 128 characters as stackName whatever the
\* application name, environment, prefix and suffix are, and returns 128
\* characters that start with the same 121 for a longer one.
C23_ExplicitStackName ==
    /\ \A i \in DOMAIN resolutions : StackNameResolved(resolutions[i])
    /\ \A i \in DOMAIN namings :
          LET explicitName == namings[i].config.deployment.stack_name
              returnedName == namings[i].names.stackName
          IN  /\ explicitName # "" /\ Len(explicitName) <= maxStackNameLength
                    => returnedName = explicitName
              /\ Len(explicitName) > maxStackNameLength
                    => /\ Len(returnedName) <= maxStackNameLength
                       /\ SubSeq(returnedName, 1, 121) = SubSeq(explicitName, 1, 121)

\* One call derived a name, the next found the name of its overrides and
\* kept it, and generateResourceNames returned that name for an environment.
C23_Witness ==
    /\ \E i \in DOMAIN resolutions :
          /\ MergedStackName(resolutions[i]) = Undefined
          /\ StackNameOf(resolutions[i].returned) = Str("my-app-production")
    /\ \E i \in DOMAIN resolutions :
          /\ MergedStackName(resolutions[i]) = Str("override-stack")
          /\ StackNameOf(resolutions[i].returned) = Str("override-stack")
    /\ \E i \in DOMAIN namings :
          /\ namings[i].config.deployment.stack_name = "override-stack"
          /\ namings[i].environment = "production"
          /\ namings[i].names.stackName = "override-stack"


\* result is target with source merged onto it: a key source lacks keeps
\* target's value, a scalar or an array of source replaces it, an object of
\* source is merged onto target's object in the same way.
RECURSIVE MergedOnto(_, _, _)
MergedOnto(result, target, source) ==
    /\ DOMAIN result = DOMAIN target \cup DOMAIN source
    /\ \A key \in DOMAIN result :
          IF key \notin DOMAIN source THEN result[key] = target[key]
          ELSE IF source[key].type # "object" THEN result[key] = source[key]
          ELSE /\ result[key].type = "object"
               /\ MergedOnto(result[key].value,
                             IF key \in DOMAIN target
                             THEN target[key].value ELSE EmptyObject,
                             source[key].value)

\* An object without some of its keys.
Without(object, keys) == [key \in DOMAIN object \ keys |-> object[key]]

\* The deployment section of a config object, empty when it has none.
DeploymentOf(cfg) ==
    IF "deployment" \in DOMAIN cfg THEN cfg["deployment"].value
    ELSE EmptyObject

\* The keys of the deployment section that resolveEnvironmentConfig writes
\* after the merge.
WrittenKeys == {"stack_name", "tags"}

\* The backend section the overrides of the tests give on the base config.
MergedBackend ==
    Obj("source_dir" :> Str("./src")
        @@ "memory" :> Num(1024)
        @@ "layers" :> Arr(<<Str("prod")>>)
        @@ "environment_variables" :> Obj("NODE_ENV" :> Str("production")))

\* C24: the config resolveEnvironmentConfig returns is the base config with
\* the overrides merged onto it object by object: a scalar or an array of
\* the overrides replaces the base value as a whole, nested objects are
\* merged key by key, a base value whose key the overrides lack is kept, and
\* with empty overrides every base value is kept.  The stack name and the
\* tags, which the function writes after the merge, keep every merged value
\* that is set.
C24_DeepMerge ==
    \A i \in DOMAIN resolutions :
        LET r == resolutions[i]
        IN  /\ MergedOnto(Without(r.returned, {"deployment"}),
                          Without(r.config, {"deployment"}),
                          Without(r.environmentOverrides, {"deployment"}))
            /\ MergedOnto(Without(DeploymentOf(r.returned), WrittenKeys),
                          Without(DeploymentOf(r.config), WrittenKeys),
                          Without(DeploymentOf(r.environmentOverrides),
                                  WrittenKeys))
            /\ \A key \in DOMAIN CallerTags(r) :
                   Get(TagsOf(r.returned), key) = CallerTags(r)[key]
            /\ MergedStackName(r) # Undefined
                   => StackNameOf(r.returned) = MergedStackName(r)
            /\ r.environmentOverrides = BackendOverrides
                   => r.returned["backend"] = MergedBackend
            /\ r.environmentOverrides = EmptyObject
                   => /\ Without(r.returned, {"deployment"})
                            = Without(r.config, {"deployment"})
                      /\ Without(DeploymentOf(r.returned), WrittenKeys)
                            = Without(DeploymentOf(r.config), WrittenKeys)

\* The overrides of the tests were merged: the array replaced, the scalar
\* replaced, the nested object added, source_dir and the region kept; and a
\* call with tags in the overrides kept the base config's other tag.
C24_Witness ==
    /\ \E i \in DOMAIN resolutions :
          /\ resolutions[i].environmentOverrides = BackendOverrides
          /\ resolutions[i].config["backend"].value["layers"]
                = Arr(<<Str("base"), Str("tracing")>>)
          /\ resolutions[i].returned["backend"] = MergedBackend
          /\ resolutions[i].returned["aws"] = Obj("region" :> Str("us-west-2"))
    /\ \E i \in DOMAIN resolutions :
          /\ "deployment" \in DOMAIN resolutions[i].environmentOverrides
          /\ TagsOf(resolutions[i].config)
                = ("CostCenter" :> Str("shared") @@ "Team" :> Str("web"))
          /\ Get(TagsOf(resolutions[i].returned), "CostCenter")
                = Str("production")
          /\ Get(TagsOf(resolutions[i].returned), "Team") = Str("web")
          /\ Get(DeploymentOf(resolutions[i].returned), "enable_monitoring")
                = Bool(TRUE)


\* The base config the caller started with.
OriginalConfig == IF resolutions = <<>> THEN baseConfig ELSE resolutions[1].config

\* C27: resolveEnvironmentConfig leaves the base config as it was: after any
\* calls the caller's base config, its deployment.stack_name and
\* deployment.tags included, is the one it started with, and a call on a
\* base config that started without a stack name and without an Environment
\* tag, with overrides that set neither, returns the stack name and the
\* Environment tag derived from its own environment argument.
C27_BaseUnmodified ==
    /\ baseConfig = OriginalConfig
    /\ \A i \in DOMAIN resolutions :
          LET r == resolutions[i]
          IN  /\ r.config = OriginalConfig
              /\ /\ StackNameOf(OriginalConfig) = Undefined
                  /\ StackNameOf(Obj(DeploymentOf(r.environmentOverrides)))
                        = Undefined
                  => StackNameOf(r.returned) =
                        Str(r.returned["application"].value["name"].value
                            \o "-" \o r.environment)
              /\ /\ "Environment" \notin DOMAIN TagsOf(OriginalConfig)
                  /\ "Environment" \notin DOMAIN OverrideTags(r)
                  => Get(TagsOf(r.returned), "Environment") = Str(r.environment)

\* What does hold: a call whose overrides have a deployment section leaves
\* the base config as it was, and every call leaves the other sections.
C27_Holds ==
    [][/\ Without(baseConfig', {"deployment"})
            = Without(baseConfig, {"deployment"})
       /\ resolutions' # resolutions
            /\ "deployment" \in
                   DOMAIN resolutions'[Len(resolutions')].environmentOverrides
            => baseConfig' = baseConfig]_vars


(***************************************************************************)
(* The template document.                                                  *)
(***************************************************************************)
OutputKeys(t) == {t.Outputs[i].OutputKey : i \in DOMAIN t.Outputs}

\* A template document with the sections and outputs its type calls for.
TemplateFor(t, type) ==
    /\ {"AWSTemplateFormatVersion", "Description", "Parameters", "Resources",
        "Outputs"} \subseteq DOMAIN t
    /\ t.AWSTemplateFormatVersion # ""
    /\ t.Description # ""
    /\ {"ApplicationName", "Environment"} \subseteq DOMAIN t.Parameters
    /\ DOMAIN t.Resources # {}
    /\ "WebsiteURL" \in OutputKeys(t) <=> type \in {"frontend", "fullstack"}
    /\ "FunctionURL" \in OutputKeys(t) <=> type \in {"backend", "fullstack"}

\* The configs of the three types that have their deployment section.
TypedConfigs ==
    {cfg \in Configs : cfg.application.type \in AppTypes /\ cfg.deployment # Null}

\* Every config of the three types gets the document its type calls for.
TypedTemplates ==
    \A cfg \in TypedConfigs : TemplateFor(generate(cfg), cfg.application.type)

\* C25: for every config of type frontend, backend or fullstack the generated
\* template has AWSTemplateFormatVersion, Description, the Parameters
\* ApplicationName and Environment, at least one resource, and among its
\* Outputs WebsiteURL exactly for frontend and fullstack and FunctionURL
\* exactly for backend and fullstack; the template a deploy() generated and
\* submitted is that document.
C25_TemplateDocument ==
    /\ TypedTemplates
    /\ \A r \in Runs :
          template[r] # Null
             => /\ template[r] = generate(config[r])
                /\ TemplateFor(template[r], config[r].application.type)
    /\ \A r \in Runs : \A i \in DOMAIN submissions[r] :
          TemplateFor(submissions[r][i].command.TemplateBody, config[r].application.type)

\* A deploy() of a fullstack config submitted its template with both outputs
\* and six resources.
C25_Witness ==
    \E r \in Runs :
       /\ config[r].application.type = "fullstack"
       /\ submissions[r] # <<>>
       /\ OutputKeys(submissions[r][1].command.TemplateBody) = {"WebsiteURL", "FunctionURL"}
       /\ Cardinality(DOMAIN submissions[r][1].command.TemplateBody.Resources) = 6


(***************************************************************************)
(* The config validator.                                                   *)
(***************************************************************************)
\* The calls of one of the validator's functions.
VerdictsOf(call) == {i \in DOMAIN verdicts : verdicts[i].call = call}

\* validateConfig's result of call i has the message.
Reports(i, message) ==
    /\ ~verdicts[i].result.value.valid
    /\ \E j \in DOMAIN verdicts[i].result.value.errors :
          verdicts[i].result.value.errors[j] = message

\* The config is right in everything but the choice of its sections.
RightButSections(cfg) ==
    /\ Truthy(cfg.application)
    /\ cfg.application.name = "my-app"
    /\ cfg.application.type \in AppTypes
    /\ Truthy(cfg.frontend) => cfg.frontend.source_dir # ""
    /\ Truthy(cfg.backend) => cfg.backend.handler # ""
    /\ ~cfg.unknown_property

\* The sections present are the ones the type needs.
SectionsFit(cfg) ==
    /\ Truthy(cfg.frontend) <=> cfg.application.type \in {"frontend", "fullstack"}
    /\ Truthy(cfg.backend) <=> cfg.application.type \in {"backend", "fullstack"}

C28_SuccessOnCompleteStack ==
    \A r \in Runs :
       Succeeded(r)
          => /\ Truthy(stackResult[r])
             /\ SuccessStatus(stackResult[r].StackStatus)

\* What does hold: the stack of a successful deploy() existed, and on the
\* polling path its status was a successful one.
C28_Holds ==
    \A r \in Runs :
       Succeeded(r)
          => /\ Truthy(stackResult[r])
             /\ Entered(r, "polling") => SuccessStatus(stackResult[r].StackStatus)


(***************************************************************************)
(* Code sync and the names the template gives.                             *)
(***************************************************************************)
\* AWS::AccountId of the deploying account: twelve digits.
AccountId == "123456789012"

\* Fn::Sub: every ${Name} of the string is replaced by its value.
RECURSIVE FnSub(_, _)
FnSub(string, values) ==
    LET opens == {i \in 1..(Len(string) - 1) : SubSeq(string, i, i + 1) = "${"}
    IN  IF opens = {} THEN string
        ELSE LET open == CHOOSE i \in opens : \A j \in opens : i <= j
                 closes == {j \in open..Len(string) : SubSeq(string, j, j) = "}"}
                 close == CHOOSE i \in closes : \A j \in closes : i <= j
             IN  SubSeq(string, 1, open - 1)
                 \o values[SubSeq(string, open + 2, close - 1)]
                 \o FnSub(SubSeq(string, close + 1, Len(string)), values)

\* The physical names a stack created from template t with the parameter
\* ApplicationName gives its resources of a type.
PhysicalNames(t, type, property, applicationName) ==
    { FnSub(t.Resources[id].Properties[property],
            ("ApplicationName" :> applicationName)
            @@ ("AWS::AccountId" :> AccountId)) :
        id \in {id \in DOMAIN t.Resources : t.Resources[id].Type = type} }

\* The value of the parameter ApplicationName the run submitted.
SubmittedName(r) == config[r].application.name

\* C29: the bucket name passed to the frontend asset upload is the
\* BucketName, and the function name passed to the Lambda code update is the
\* FunctionName, that the template of the same deployment gives the bucket and
\* the function.
C29_SyncTargetsProvisioned ==
    \A r \in Runs : \A i \in DOMAIN syncCalls[r] :
       LET c == syncCalls[r][i]
       IN  /\ c.call = "deployFrontendAssets"
              => c.target \in PhysicalNames(template[r], "AWS::S3::Bucket",
                                            "BucketName", SubmittedName(r))
           /\ c.call = "updateFunctionCode"
              => c.target \in PhysicalNames(template[r], "AWS::Lambda::Function",
                                            "FunctionName", SubmittedName(r))

\* What does hold in these deployments: neither target is a name of the
\* template.
C29_Holds ==
    \A r \in Runs : \A i \in DOMAIN syncCalls[r] :
       LET c == syncCalls[r][i]
       IN  /\ c.target \notin PhysicalNames(template[r], "AWS::S3::Bucket",
                                             "BucketName", SubmittedName(r))
           /\ c.target \notin PhysicalNames(template[r], "AWS::Lambda::Function",
                                             "FunctionName", SubmittedName(r))


(***************************************************************************)
(* A stack that disappears while it is polled.                             *)
(***************************************************************************)
NotFoundMessage(r) == "Stack " \o stackNameOf(config[r]) \o " not found"

\* C30: a probe of the polling loop that finds the stack gone ends the
\* deploy at once: the run returns success:false with the error
\* 'Stack <name> not found' (or with the probe's own error when the probe
\* failed for another reason), it does not sleep and probe again, and it
\* submits nothing, then or later.
C30_StackGone ==
    [][\A r \in Runs :
         /\ pc[r] = "poll" /\ pc'[r] # "poll" /\ ~stack.exists
               => /\ pc'[r] = "done"
                  /\ promise'[r].state = "resolved"
                  /\ ~promise'[r].value.success
                  /\ promise'[r].value.errors[1].message
                        \in {NotFoundMessage(r), ServiceError.message}
                  /\ submissions'[r] = submissions[r]
                  /\ awsCalls'[r] = awsCalls[r] \cup {"DescribeStacks"}
         /\ pc[r] = "done"
               => /\ pc'[r] = "done"
                  /\ submissions'[r] = submissions[r]
                  /\ awsCalls'[r] = awsCalls[r]
                  /\ promise'[r] = promise[r]]_vars

\* A deploy whose stack was deleted while it polled failed with the error,
\* after one submission and before the timeout.
C30_Witness ==
    \E r \in Runs :
       /\ Failed(r)
       /\ FailureMessage(r) = NotFoundMessage(r)
       /\ Entered(r, "polling")
       /\ Len(submissions[r]) = 1
       /\ elapsed[r] < MaxWaitTime
       /\ ~stack.exists

====
